---- MODULE Spec2Model ----
(***************************************************************************)
(* Model of local-pr-reviewer: the repository discovery scan              *)
(* (app/routes/api.repos.scan.ts, multi-root variant) and the diff        *)
(* viewer's view state (app/components/diff-viewer.tsx), and the          *)
(* repository picker that consumes the scan's response stream.            *)
(***************************************************************************)
EXTENDS Integers, Sequences, FiniteSets, TLC

(***************************************************************************)
(* Bounds                                                                  *)
(***************************************************************************)
MaxRoots == 2
MaxDepthBound == 1
MaxUnreadable == 1
MaxRuns == 2

\* pending timeouts of handleLineSelectionEnd at one time
MaxTimers == 2

\* comments in a list, and the highest line a comment names
MaxComments == 2
MaxLine == 2

\* content blocks in a hunk, and lines in a block
MaxBlocks == 3
MaxBlockLines == 4

\* lines in a response body handed to the picker
MaxStreamLines == 3

\* the getOrCreateSession calls in flight at a time
MaxCalls == 2

\* the saves and deletes started from the comment card
MaxMutations == 2

(***************************************************************************)
(* The filesystem the scan walks.  A path is the sequence of its          *)
(* components; join(dir, name) appends a component.                       *)
(***************************************************************************)
PathA == <<"a">>
PathB == <<"a", "b">>
PathC == <<"a", "b", "c">>
PathD == <<"a", "b", "c", "d">>
PathE == <<"a", "e">>
PathNodeModules == <<"a", "node_modules">>
PathDotH == <<"a", ".h">>
PathFile == <<"a", "f.txt">>

Join(dir, name) == Append(dir, name)

\* readdirSync(dir): the entry names of a directory, in directory order
DirEntries(dir) ==
    CASE dir = PathA -> <<"b", "f.txt", "node_modules", ".h", "e">>
      [] dir = PathB -> <<"c">>
      [] dir = PathC -> <<"d">>
      [] OTHER -> <<>>

\* Dirent.isDirectory()
IsDirectory(path) == path # PathFile

RootCandidates == {PathA, PathB}
GitCandidates == {PathB, PathC, PathE}
AlwaysGit == {PathD, PathNodeModules, PathDotH}
UnreadableCandidates == {PathA, PathB}

IGNORED_DIRS ==
    {"node_modules", ".git", "dist", "build", ".next", ".cache",
     "coverage", "vendor", "__pycache__", ".venv", "venv"}

\* name.startsWith('.') over the names that occur
StartsWithDot(name) == name \in {".git", ".next", ".cache", ".venv", ".h"}

\* String.prototype.localeCompare over the names that occur:
\* negative, zero or positive
NameRank(name) ==
    CASE name = ".h" -> 0
      [] name = "a" -> 1
      [] name = "b" -> 2
      [] name = "c" -> 3
      [] name = "d" -> 4
      [] name = "e" -> 5
      [] name = "node_modules" -> 6
      [] OTHER -> 7

LocaleCompare(x, y) == NameRank(x) - NameRank(y)

NameOf(path) == path[Len(path)]

\* the GitRepo record the scanner yields for a directory entry
GitRepo(fullPath) == [path |-> fullPath, name |-> NameOf(fullPath)]

(***************************************************************************)
(* State                                                                   *)
(***************************************************************************)
VARIABLES
    repoScanRoots,     \* config.repoScanRoots
    repoScanMaxDepth,  \* config.repoScanMaxDepth
    gitRepos,          \* directories for which git.isGitRepo answers true
    unreadable,        \* directories whose readdirSync throws
    phase,             \* position of the loader's effect
    pending,           \* per root: the traversal's pending work, first = next
    merged,            \* repos handed to the merged stream, not yet consumed
    seenPaths,         \* the scan's seenPaths set
    repos,             \* the scan's repos accumulator
    out,               \* records enqueued on the response stream
    controller,        \* state of the ReadableStream controller
    opFailed,          \* the discovery effect itself failed
    runs,              \* number of loader() invocations so far
    prevRun,           \* result of the previous completed scan
    suspended,         \* the locals of the other loader() invocation
    rawDiff,           \* the rawDiff prop of DiffViewerClient
    DiffComponents,    \* the diff library has been imported
    state,             \* the DiffViewerState held by useReducer
    initDeps,          \* dependencies of the auto-expand effect's last run
    fileMetadataMap,   \* the files prop: path -> additions, deletions
    largeFileThreshold,  \* the largeFileThreshold prop
    existingComments,  \* the existingComments prop
    fileHunks,         \* fileDiff.hunks of the parsed files, by path
    justSelectedMultiLineRef,  \* justSelectedMultiLineRef.current
    timers,            \* pending 100 ms timeouts of handleLineSelectionEnd
    body,              \* the response body's text sent so far
    bodyEnded,         \* the sender has closed the response body
    received,          \* units of the body reader.read() has delivered
    buffer,            \* streamRepos' buffer
    pickerSeenPaths,   \* streamRepos' seenPaths set
    pickerState,       \* the RepoPickerState held by useReducer
    pickerPhase,       \* position of streamRepos
    scrollToFileRef,   \* expandedFiles as scrollToFileRef.current captured it
    card,              \* CommentPreviewCard's isEditing, isSaving, editContent
    requests,          \* the card's fetches to /api/comments in flight
    storedComment,     \* the card's comment as the comment store holds it
    changes,           \* number of onCommentChange() calls so far
    sessions,          \* the rows of review_sessions
    calls              \* the getOrCreateSession calls and their locals

scanVars == <<repoScanRoots, repoScanMaxDepth, gitRepos, unreadable, phase,
              pending, merged, seenPaths, repos, out, controller, opFailed,
              runs, prevRun, suspended>>

propVars == <<fileMetadataMap, largeFileThreshold, existingComments,
              fileHunks>>

refVars == <<justSelectedMultiLineRef, timers>>

viewVars == <<rawDiff, DiffComponents, state, initDeps, propVars, refVars,
              scrollToFileRef>>

pickerVars == <<body, bodyEnded, received, buffer, pickerSeenPaths,
                pickerState, pickerPhase>>

cardVars == <<card, requests, storedComment, changes>>

sessionVars == <<sessions, calls>>

storeVars == <<cardVars, sessionVars>>

vars == <<scanVars, viewVars, pickerVars, storeVars>>

RootIds == 1..Len(repoScanRoots)

\* sequences over S of length 0..n
SeqsUpTo(S, n) == UNION {[1..k -> S] : k \in 0..n}

NoRun == [paths |-> {}, total |-> -1, order |-> <<>>]

\* the locals of a loader() invocation that has not started
IdleLocals ==
    [phase |-> "idle", pending |-> <<>>, merged |-> <<>>, seenPaths |-> {},
     repos |-> <<>>, out |-> <<>>, controller |-> "none", opFailed |-> FALSE]

\* commentForm: null
Null == [null |-> TRUE]

\* new Map(), new Set()
EmptyMap == <<>>

initialDiffViewerState ==
    [commentForm |-> Null,
     selectedLines |-> EmptyMap,
     expandedFiles |-> {},
     isInitialized |-> FALSE,
     loadedFiles |-> {}]

DEFAULT_EXPANDED_COUNT == 10
DEFAULT_LARGE_FILE_THRESHOLD == 500

\* the raw diffs the viewer is given
RawDiffs == {"diff1", "diff2", "diff3"}

\* a raw diff of fifteen files, the third and the seventh lock files
LongDiff == "diff4"

\* DiffComponents.parsePatchFiles(rawDiff), flattened to the files' paths;
\* a diff that does not parse yields no file
ParsePatchFiles(diff) ==
    CASE diff = "diff1" -> <<"src/a.ts", "yarn.lock", "src/big.ts">>
      [] diff = "diff2" -> <<"src/b.ts", "src/a.ts">>
      [] diff = "diff4" ->
             <<"src/f01.ts", "src/f02.ts", "Cargo.lock", "src/f04.ts",
               "src/f05.ts", "src/f06.ts", "package-lock.json", "src/f08.ts",
               "src/f09.ts", "src/f10.ts", "src/f11.ts", "src/f12.ts",
               "src/f13.ts", "src/f14.ts", "src/f15.ts">>
      [] OTHER -> <<>>

\* the files prop the viewer is usually given; src/b.ts has no entry
FilesProp ==
    ("src/a.ts" :> [additions |-> 7, deletions |-> 5])
        @@ ("yarn.lock" :> [additions |-> 40, deletions |-> 0])
        @@ ("src/big.ts" :> [additions |-> 300, deletions |-> 201])

\* additions + deletions of the files prop's entry for a path
\* (a path without an entry counts 0)
TotalChanges(filePath) ==
    IF filePath \in DOMAIN fileMetadataMap
    THEN fileMetadataMap[filePath].additions
             + fileMetadataMap[filePath].deletions
    ELSE 0

\* the hunks of the files' patches, as the hunk menu of a file header
\* lists them
Hunks(filePath) ==
    CASE filePath = "src/a.ts" ->
             {[additionStart |-> 1, additionLines |-> 2,
               hunkContent |-> <<[type |-> "context", lines |-> 1],
                                 [type |-> "change", additions |-> 1,
                                  deletions |-> 0]>>]}
      [] filePath = "src/b.ts" ->
             {[additionStart |-> 1, additionLines |-> 2,
               hunkContent |-> <<[type |-> "change", additions |-> 2,
                                  deletions |-> 1]>>]}
      [] OTHER -> {}

\* the files that occur in the raw diffs
HunkFiles == {"src/a.ts", "src/b.ts", "src/big.ts", "yarn.lock"}

\* fileDiff.hunks of the files as the diff library parses them
ParsedHunks == [filePath \in HunkFiles |-> Hunks(filePath)]

\* error: null is <<>>, a message m is <<m>>
NoError == <<>>

\* const initialState: RepoPickerState
initialState ==
    [repos |-> <<>>, loading |-> TRUE, error |-> NoError, filter |-> ""]

\* the picker is not mounted
PickerIdle ==
    /\ body = <<>>
    /\ bodyEnded = FALSE
    /\ received = 0
    /\ buffer = <<>>
    /\ pickerSeenPaths = {}
    /\ pickerState = initialState
    /\ pickerPhase = "unmounted"

\* a comment as the card shows it at first and as the store holds it
InitialContent == "first"

\* useState(false), useState(comment.content), useState(false)
initialCard ==
    [isEditing |-> FALSE, editContent |-> InitialContent, isSaving |-> FALSE]

\* a call of getOrCreateSession that has not been made
NoCall == [phase |-> "idle", repoId |-> "", branch |-> "", result |-> <<>>]

\* the card as mounted with nothing in flight, the comment in the store, no
\* session and no call
StoreIdle ==
    /\ card = initialCard
    /\ requests = <<>>
    /\ storedComment = <<InitialContent>>
    /\ changes = 0
    /\ sessions = {}
    /\ calls = [c \in 1..MaxCalls |-> NoCall]

\* the view's variables outside the viewer's runs, the scan's outside the
\* scan's
ViewIdle ==
    /\ rawDiff = "diff1"
    /\ DiffComponents = FALSE
    /\ state = initialDiffViewerState
    /\ fileMetadataMap = FilesProp
    /\ largeFileThreshold = DEFAULT_LARGE_FILE_THRESHOLD
    /\ initDeps = [allFiles |-> <<"diff1", FALSE>>, isInitialized |-> FALSE,
                   fileMetadataMap |-> fileMetadataMap,
                   largeFileThreshold |-> largeFileThreshold]
    /\ existingComments = <<>>
    /\ fileHunks = ParsedHunks
    /\ justSelectedMultiLineRef = FALSE
    /\ timers = 0
    /\ scrollToFileRef = state.expandedFiles

Init ==
    /\ repoScanRoots \in SeqsUpTo(RootCandidates, MaxRoots)
    /\ repoScanMaxDepth \in 0..MaxDepthBound
    /\ \E g \in SUBSET GitCandidates : gitRepos = g \cup AlwaysGit
    /\ unreadable \in {u \in SUBSET UnreadableCandidates :
                          Cardinality(u) <= MaxUnreadable}
    /\ phase = "idle"
    /\ pending = <<>>
    /\ merged = <<>>
    /\ seenPaths = {}
    /\ repos = <<>>
    /\ out = <<>>
    /\ controller = "none"
    /\ opFailed = FALSE
    /\ runs = 0
    /\ prevRun = NoRun
    /\ suspended = IdleLocals
    /\ PickerIdle
    /\ StoreIdle
    /\ ViewIdle

(***************************************************************************)
(* Pure helpers of the scan                                                *)
(***************************************************************************)
\* variant: the filter lets dot-directories through
EntryAcceptedWithDots(dir, name) ==
    /\ IsDirectory(Join(dir, name))
    /\ name \notin IGNORED_DIRS

\* the Stream.filter predicate on a directory entry `name` of `dir`
EntryAccepted(dir, name) ==
    /\ IsDirectory(Join(dir, name))
    /\ name \notin IGNORED_DIRS
    /\ ~(StartsWithDot(name) /\ name # ".git")

RECURSIVE FilterEntries(_, _)
FilterEntries(dir, names) ==
    IF names = <<>> THEN <<>>
    ELSE LET rest == FilterEntries(dir, Tail(names))
         IN IF EntryAccepted(dir, Head(names))
            THEN <<Head(names)>> \o rest
            ELSE rest

\* readdirSync inside try/catch: a directory that cannot be read yields
\* an empty stream
ReadEntries(dir) ==
    IF dir \in unreadable THEN <<>> ELSE FilterEntries(dir, DirEntries(dir))

\* git.isGitRepo(fullPath)
IsGitRepo(fullPath) == fullPath \in gitRepos

CallItem(dir, depth) == [kind |-> "call", path |-> dir, depth |-> depth]
EntryItem(fullPath, depth) == [kind |-> "entry", path |-> fullPath, depth |-> depth]

\* variant: the depth test written depth >= maxDepth
ScanItemsOffByOne(dir, depth) ==
    IF depth >= repoScanMaxDepth THEN <<>>
    ELSE LET names == ReadEntries(dir)
         IN [k \in 1..Len(names) |-> EntryItem(Join(dir, names[k]), depth)]

\* the entries a scanForReposStream(dir, maxDepth, depth) invocation walks
ScanItems(dir, depth) ==
    IF depth > repoScanMaxDepth THEN <<>>
    ELSE LET names == ReadEntries(dir)
         IN [k \in 1..Len(names) |-> EntryItem(Join(dir, names[k]), depth)]

\* Array.prototype.sort with (a, b) => a.name.localeCompare(b.name): stable
RECURSIVE InsertByName(_, _)
InsertByName(sorted, r) ==
    IF sorted = <<>> THEN <<r>>
    ELSE IF LocaleCompare(r.name, Head(sorted).name) < 0
         THEN <<r>> \o sorted
         ELSE <<Head(sorted)>> \o InsertByName(Tail(sorted), r)

RECURSIVE SortByName(_)
SortByName(s) ==
    IF s = <<>> THEN <<>>
    ELSE InsertByName(SortByName(SubSeq(s, 1, Len(s) - 1)), s[Len(s)])

RepoRecord(repo) == [type |-> "repo", data |-> repo]
DoneRecord(total) == [type |-> "done", total |-> total]
ErrorRecord == [type |-> "error", message |-> "Failed to scan repositories"]

\* controller.enqueue(rec): throws once the stream is no longer readable; a
\* throw inside Effect.sync is a defect, which Effect.catchAll does not catch
Enqueue(rec, next) ==
    IF controller = "readable"
    THEN out' = Append(out, rec) /\ phase' = next
    ELSE out' = out /\ phase' = "died"

\* Stream.mergeAll(rootStreams, { concurrency: rootStreams.length })
MergeConcurrency == Len(repoScanRoots)

\* variant: the root streams are merged one after the other
ScheduledSequential(i) ==
    /\ i \in DOMAIN pending
    /\ pending[i] # <<>>
    /\ \A j \in 1..(i - 1) : pending[j] = <<>>

\* root i's traversal is one of the first MergeConcurrency unfinished ones
Scheduled(i) ==
    /\ i \in DOMAIN pending
    /\ pending[i] # <<>>
    /\ Cardinality({j \in 1..(i - 1) : pending[j] # <<>>}) < MergeConcurrency

RepoPathsOf(records) ==
    {records[k].data.path : k \in {n \in 1..Len(records) : records[n].type = "repo"}}

\* the repo paths of a record sequence, in emission order
RECURSIVE RepoOrderOf(_)
RepoOrderOf(records) ==
    IF records = <<>> THEN <<>>
    ELSE IF Head(records).type = "repo"
         THEN <<Head(records).data.path>> \o RepoOrderOf(Tail(records))
         ELSE RepoOrderOf(Tail(records))

Terminals(records) ==
    {k \in 1..Len(records) : records[k].type \in {"done", "error"}}

(***************************************************************************)
(* Actions of the scan                                                     *)
(***************************************************************************)
\* variant: seenPaths lives outside the scan and survives it
LoaderSharedSeen ==
    /\ phase \in {"idle", "closed"}
    /\ runs < MaxRuns
    /\ runs' = runs + 1
    /\ prevRun' = IF out # <<>> /\ out[Len(out)].type = "done"
                  THEN [paths |-> RepoPathsOf(out),
                        total |-> out[Len(out)].total,
                        order |-> RepoOrderOf(out)]
                  ELSE prevRun
    /\ pending' = [i \in RootIds |-> <<CallItem(repoScanRoots[i], 0)>>]
    /\ merged' = <<>>
    /\ repos' = <<>>
    /\ out' = <<>>
    /\ controller' = "readable"
    /\ opFailed' = FALSE
    /\ phase' = "running"
    /\ UNCHANGED <<repoScanRoots, repoScanMaxDepth, gitRepos, unreadable,
                   seenPaths>>
    /\ UNCHANGED <<suspended, viewVars, pickerVars, storeVars>>

\* loader(): a new scan; its own seenPaths, repos and response stream
Loader ==
    /\ phase \in {"idle", "closed"}
    /\ runs < MaxRuns
    /\ runs' = runs + 1
    /\ prevRun' = IF out # <<>> /\ out[Len(out)].type = "done"
                  THEN [paths |-> RepoPathsOf(out),
                        total |-> out[Len(out)].total,
                        order |-> RepoOrderOf(out)]
                  ELSE prevRun
    /\ pending' = [i \in RootIds |-> <<CallItem(repoScanRoots[i], 0)>>]
    /\ merged' = <<>>
    /\ seenPaths' = {}
    /\ repos' = <<>>
    /\ out' = <<>>
    /\ controller' = "readable"
    /\ opFailed' = FALSE
    /\ phase' = "running"
    /\ UNCHANGED <<repoScanRoots, repoScanMaxDepth, gitRepos, unreadable>>
    /\ UNCHANGED <<suspended, viewVars, pickerVars, storeVars>>

\* variant: readdirSync outside try/catch, the exception kills the effect
ScanForReposStreamNoCatch(i) ==
    /\ phase = "running"
    /\ Scheduled(i)
    /\ Head(pending[i]).kind = "call"
    /\ LET item == Head(pending[i])
       IN IF item.depth <= repoScanMaxDepth /\ item.path \in unreadable
          THEN phase' = "died" /\ pending' = pending
          ELSE /\ phase' = phase
               /\ pending' = [pending EXCEPT
                      ![i] = ScanItems(item.path, item.depth) \o Tail(pending[i])]
    /\ UNCHANGED <<repoScanRoots, repoScanMaxDepth, gitRepos, unreadable,
                   merged, seenPaths, repos, out, controller, opFailed, runs,
                   prevRun>>
    /\ UNCHANGED <<suspended, viewVars, pickerVars, storeVars>>

\* one scanForReposStream invocation of root i's traversal: the depth test
\* and the directory listing
ScanForReposStream(i) ==
    /\ phase = "running"
    /\ Scheduled(i)
    /\ Head(pending[i]).kind = "call"
    /\ LET item == Head(pending[i])
       IN pending' = [pending EXCEPT
              ![i] = ScanItems(item.path, item.depth) \o Tail(pending[i])]
    /\ UNCHANGED <<repoScanRoots, repoScanMaxDepth, gitRepos, unreadable, phase,
                   merged, seenPaths, repos, out, controller, opFailed, runs,
                   prevRun>>
    /\ UNCHANGED <<suspended, viewVars, pickerVars, storeVars>>

\* variant: a repository is yielded and recursed into as well
TestEntryDescends(i) ==
    /\ phase = "running"
    /\ Scheduled(i)
    /\ Head(pending[i]).kind = "entry"
    /\ LET item == Head(pending[i])
       IN /\ merged' = IF IsGitRepo(item.path)
                       THEN Append(merged, GitRepo(item.path))
                       ELSE merged
          /\ pending' = [pending EXCEPT
                 ![i] = <<CallItem(item.path, item.depth + 1)>>
                        \o Tail(pending[i])]
    /\ UNCHANGED <<repoScanRoots, repoScanMaxDepth, gitRepos, unreadable, phase,
                   seenPaths, repos, out, controller, opFailed, runs, prevRun>>
    /\ UNCHANGED <<suspended, viewVars, pickerVars, storeVars>>

\* the mapEffect / flatMap stage on the next entry of root i's traversal:
\* a repository is yielded, anything else is recursed into
TestEntry(i) ==
    /\ phase = "running"
    /\ Scheduled(i)
    /\ Head(pending[i]).kind = "entry"
    /\ LET item == Head(pending[i])
       IN IF IsGitRepo(item.path)
          THEN /\ merged' = Append(merged, GitRepo(item.path))
               /\ pending' = [pending EXCEPT ![i] = Tail(pending[i])]
          ELSE /\ merged' = merged
               /\ pending' = [pending EXCEPT
                      ![i] = <<CallItem(item.path, item.depth + 1)>>
                             \o Tail(pending[i])]
    /\ UNCHANGED <<repoScanRoots, repoScanMaxDepth, gitRepos, unreadable, phase,
                   seenPaths, repos, out, controller, opFailed, runs, prevRun>>
    /\ UNCHANGED <<suspended, viewVars, pickerVars, storeVars>>

\* variant: no seenPaths test
RunForEachNoDedup ==
    /\ phase = "running"
    /\ merged # <<>>
    /\ LET repo == Head(merged)
       IN /\ merged' = Tail(merged)
          /\ seenPaths' = seenPaths \cup {repo.path}
          /\ repos' = SortByName(Append(repos, repo))
          /\ Enqueue(RepoRecord(repo), "running")
    /\ UNCHANGED <<repoScanRoots, repoScanMaxDepth, gitRepos, unreadable,
                   pending, controller, opFailed, runs, prevRun>>
    /\ UNCHANGED <<suspended, viewVars, pickerVars, storeVars>>

\* variant: the repo is pushed on the accumulator before the seenPaths test
RunForEachPushFirst ==
    /\ phase = "running"
    /\ merged # <<>>
    /\ LET repo == Head(merged)
       IN /\ merged' = Tail(merged)
          /\ repos' = SortByName(Append(repos, repo))
          /\ IF repo.path \in seenPaths
             THEN UNCHANGED <<seenPaths, out, phase>>
             ELSE /\ seenPaths' = seenPaths \cup {repo.path}
                  /\ Enqueue(RepoRecord(repo), "running")
    /\ UNCHANGED <<repoScanRoots, repoScanMaxDepth, gitRepos, unreadable,
                   pending, controller, opFailed, runs, prevRun>>
    /\ UNCHANGED <<suspended, viewVars, pickerVars, storeVars>>

\* variant: the accumulator is not re-sorted
RunForEachUnsorted ==
    /\ phase = "running"
    /\ merged # <<>>
    /\ LET repo == Head(merged)
       IN /\ merged' = Tail(merged)
          /\ IF repo.path \in seenPaths
             THEN UNCHANGED <<seenPaths, repos, out, phase>>
             ELSE /\ seenPaths' = seenPaths \cup {repo.path}
                  /\ repos' = Append(repos, repo)
                  /\ Enqueue(RepoRecord(repo), "running")
    /\ UNCHANGED <<repoScanRoots, repoScanMaxDepth, gitRepos, unreadable,
                   pending, controller, opFailed, runs, prevRun>>
    /\ UNCHANGED <<suspended, viewVars, pickerVars, storeVars>>

\* the Stream.runForEach body on the next repo of the merged stream
RunForEach ==
    /\ phase = "running"
    /\ merged # <<>>
    /\ LET repo == Head(merged)
       IN /\ merged' = Tail(merged)
          /\ IF repo.path \in seenPaths
             THEN UNCHANGED <<seenPaths, repos, out, phase>>
             ELSE /\ seenPaths' = seenPaths \cup {repo.path}
                  /\ repos' = SortByName(Append(repos, repo))
                  /\ Enqueue(RepoRecord(repo), "running")
    /\ UNCHANGED <<repoScanRoots, repoScanMaxDepth, gitRepos, unreadable,
                   pending, controller, opFailed, runs, prevRun>>
    /\ UNCHANGED <<suspended, viewVars, pickerVars, storeVars>>

\* variant: an empty result is reported as a failure
SignalDoneErrorOnEmpty ==
    /\ phase = "running"
    /\ merged = <<>>
    /\ \A i \in DOMAIN pending : pending[i] = <<>>
    /\ IF repos = <<>>
       THEN Enqueue(ErrorRecord, "settled")
       ELSE Enqueue(DoneRecord(Len(repos)), "settled")
    /\ UNCHANGED <<repoScanRoots, repoScanMaxDepth, gitRepos, unreadable,
                   pending, merged, seenPaths, repos, controller, opFailed,
                   runs, prevRun>>
    /\ UNCHANGED <<suspended, viewVars, pickerVars, storeVars>>

\* every root stream is exhausted: the completion record
SignalDone ==
    /\ phase = "running"
    /\ merged = <<>>
    /\ \A i \in DOMAIN pending : pending[i] = <<>>
    /\ Enqueue(DoneRecord(Len(repos)), "settled")
    /\ UNCHANGED <<repoScanRoots, repoScanMaxDepth, gitRepos, unreadable,
                   pending, merged, seenPaths, repos, controller, opFailed,
                   runs, prevRun>>
    /\ UNCHANGED <<suspended, viewVars, pickerVars, storeVars>>

\* the discovery effect fails
Fail ==
    /\ phase = "running"
    /\ opFailed' = TRUE
    /\ phase' = "failing"
    /\ UNCHANGED <<repoScanRoots, repoScanMaxDepth, gitRepos, unreadable,
                   pending, merged, seenPaths, repos, out, controller, runs,
                   prevRun>>
    /\ UNCHANGED <<suspended, viewVars, pickerVars, storeVars>>

\* variant: the failure is caught before the completion record is written
CatchAllThenDone ==
    /\ phase = "failing"
    /\ IF controller = "readable"
       THEN /\ out' = out \o <<ErrorRecord, DoneRecord(Len(repos))>>
            /\ phase' = "settled"
       ELSE out' = out /\ phase' = "died"
    /\ UNCHANGED <<repoScanRoots, repoScanMaxDepth, gitRepos, unreadable,
                   pending, merged, seenPaths, repos, controller, opFailed,
                   runs, prevRun>>
    /\ UNCHANGED <<suspended, viewVars, pickerVars, storeVars>>

\* Effect.catchAll: the error record
CatchAll ==
    /\ phase = "failing"
    /\ Enqueue(ErrorRecord, "settled")
    /\ UNCHANGED <<repoScanRoots, repoScanMaxDepth, gitRepos, unreadable,
                   pending, merged, seenPaths, repos, controller, opFailed,
                   runs, prevRun>>
    /\ UNCHANGED <<suspended, viewVars, pickerVars, storeVars>>

\* finally { controller.close() }
Close ==
    /\ phase \in {"settled", "died"}
    /\ phase' = "closed"
    /\ controller' = IF controller = "readable" THEN "closed" ELSE controller
    /\ UNCHANGED <<repoScanRoots, repoScanMaxDepth, gitRepos, unreadable,
                   pending, merged, seenPaths, repos, out, opFailed, runs,
                   prevRun>>
    /\ UNCHANGED <<suspended, viewVars, pickerVars, storeVars>>

\* the consumer cancels the response stream (client disconnect)
Cancel ==
    /\ phase \in {"running", "failing", "settled"}
    /\ controller = "readable"
    /\ controller' = "cancelled"
    /\ UNCHANGED <<repoScanRoots, repoScanMaxDepth, gitRepos, unreadable, phase,
                   pending, merged, seenPaths, repos, out, opFailed, runs,
                   prevRun>>
    /\ UNCHANGED <<suspended, viewVars, pickerVars, storeVars>>

\* the locals of the loader() invocation whose steps the actions take
RunningLocals ==
    [phase |-> phase, pending |-> pending, merged |-> merged,
     seenPaths |-> seenPaths, repos |-> repos, out |-> out,
     controller |-> controller, opFailed |-> opFailed]

\* variant: seenPaths is one set for the process, not a local of loader()
SwitchSharingSeenPaths ==
    /\ suspended' = RunningLocals
    /\ phase' = suspended.phase
    /\ pending' = suspended.pending
    /\ merged' = suspended.merged
    /\ seenPaths' = seenPaths
    /\ repos' = suspended.repos
    /\ out' = suspended.out
    /\ controller' = suspended.controller
    /\ opFailed' = suspended.opFailed
    /\ UNCHANGED <<repoScanRoots, repoScanMaxDepth, gitRepos, unreadable,
                   runs, prevRun>>
    /\ UNCHANGED <<viewVars, pickerVars, storeVars>>

\* two requests at a time: the event loop turns from one loader()
\* invocation to the other; each has its own locals and response stream
Switch ==
    /\ suspended' = RunningLocals
    /\ phase' = suspended.phase
    /\ pending' = suspended.pending
    /\ merged' = suspended.merged
    /\ seenPaths' = suspended.seenPaths
    /\ repos' = suspended.repos
    /\ out' = suspended.out
    /\ controller' = suspended.controller
    /\ opFailed' = suspended.opFailed
    /\ UNCHANGED <<repoScanRoots, repoScanMaxDepth, gitRepos, unreadable,
                   runs, prevRun>>
    /\ UNCHANGED <<viewVars, pickerVars, storeVars>>

Traverse == \E i \in RootIds : ScanForReposStream(i) \/ TestEntry(i)

Next ==
    \/ Loader
    \/ \E i \in RootIds : ScanForReposStream(i)
    \/ \E i \in RootIds : TestEntry(i)
    \/ RunForEach
    \/ SignalDone
    \/ Fail
    \/ CatchAll
    \/ Close
    \/ Cancel

Spec == Init /\ [][Next]_vars

\* the event loop keeps running the scan's own steps; loader(), a failure
\* of the effect and the consumer's cancel are the environment's
\* one scan: loader() is invoked once
LoaderOnce == runs = 0 /\ Loader

OneScanNext ==
    \/ LoaderOnce
    \/ \E i \in RootIds : ScanForReposStream(i)
    \/ \E i \in RootIds : TestEntry(i)
    \/ RunForEach
    \/ SignalDone
    \/ Fail
    \/ CatchAll
    \/ Close
    \/ Cancel

FairSpec ==
    /\ Init
    /\ [][OneScanNext]_vars
    /\ WF_vars(Traverse)
    /\ WF_vars(RunForEach)
    /\ WF_vars(SignalDone)
    /\ WF_vars(CatchAll)
    /\ WF_vars(Close)

(***************************************************************************)
(* Vocabulary of the scan's properties                                     *)
(***************************************************************************)
Dirs == {PathA, PathB, PathC, PathD, PathE, PathNodeModules, PathDotH}

\* p lies strictly below r
IsBelow(r, p) == Len(r) < Len(p) /\ SubSeq(p, 1, Len(r)) = r

\* number of levels between a root r and a directory p below it
\* (a root's own entries are at distance 1)
Dist(r, p) == Len(p) - Len(r)

Prefix(p, n) == SubSeq(p, 1, n)

IgnoredName(name) == name \in IGNORED_DIRS \/ StartsWithDot(name)

\* p is a repository the traversal of root r can reach: every directory on
\* the way is readable and is not itself a repository, no component below r
\* is an ignored or dot name, and p is at most maxDepth + 1 levels below r
ReachableFrom(r, p) ==
    /\ IsBelow(r, p)
    /\ p \in gitRepos
    /\ Dist(r, p) <= repoScanMaxDepth + 1
    /\ \A n \in Len(r)..(Len(p) - 1) : Prefix(p, n) \notin unreadable
    /\ \A n \in (Len(r) + 1)..(Len(p) - 1) : Prefix(p, n) \notin gitRepos
    /\ \A n \in (Len(r) + 1)..Len(p) : ~IgnoredName(p[n])

RootsReaching(p) == {i \in RootIds : ReachableFrom(repoScanRoots[i], p)}

Expected == {p \in Dirs : RootsReaching(p) # {}}

RepoIndexes == {k \in 1..Len(out) : out[k].type = "repo"}

EmittedCount(p) == Cardinality({k \in RepoIndexes : out[k].data.path = p})

Emitted == RepoPathsOf(out)

DoneEmitted == \E k \in 1..Len(out) : out[k].type = "done"

ErrorEmitted == \E k \in 1..Len(out) : out[k].type = "error"

Cancelled == controller = "cancelled"

(***************************************************************************)
(* C1: in one scan no repository path is emitted twice, and when the scan  *)
(* completes a repository reachable from two or more roots (overlapping or *)
(* identical) has been emitted exactly once, whatever the interleaving.    *)
(***************************************************************************)
C1_EmittedExactlyOnce ==
    \A p \in Dirs :
        /\ EmittedCount(p) <= 1
        /\ (DoneEmitted /\ Cardinality(RootsReaching(p)) >= 2)
               => EmittedCount(p) = 1

C1_Witness ==
    /\ DoneEmitted
    /\ \E p \in Dirs : Cardinality(RootsReaching(p)) >= 2 /\ EmittedCount(p) = 1
    /\ \E i, j \in RootIds : i # j /\ repoScanRoots[i] # repoScanRoots[j]

(***************************************************************************)
(* C2 as stated: every emitted repository is at most maxDepth levels below *)
(* some root, and a reachable repository exactly maxDepth levels below a   *)
(* root has been emitted when the scan completes.                          *)
(***************************************************************************)
C2_Original ==
    /\ \A p \in Emitted :
           \E i \in RootIds :
               /\ IsBelow(repoScanRoots[i], p)
               /\ Dist(repoScanRoots[i], p) <= repoScanMaxDepth
    /\ DoneEmitted =>
           \A p \in Expected :
               (\E i \in RootsReaching(p) :
                    Dist(repoScanRoots[i], p) = repoScanMaxDepth)
                   => p \in Emitted

(***************************************************************************)
(* C2 amended: the depth counter is that of the directory being listed     *)
(* (the root is listed at depth 0), so every emitted repository is at most *)
(* maxDepth + 1 levels below some root, and a reachable repository exactly *)
(* maxDepth + 1 levels below a root has been emitted when the scan         *)
(* completes (the boundary maxDepth + 1 is inclusive).                     *)
(***************************************************************************)
C2_DepthBoundary ==
    /\ \A p \in Emitted :
           \E i \in RootIds :
               /\ IsBelow(repoScanRoots[i], p)
               /\ Dist(repoScanRoots[i], p) <= repoScanMaxDepth + 1
    /\ DoneEmitted =>
           \A p \in Dirs : \A i \in RootsReaching(p) :
               Dist(repoScanRoots[i], p) = repoScanMaxDepth + 1
                   => p \in Emitted

\* a repository on the boundary was emitted and a repository one level
\* deeper, otherwise reachable, was not
C2_Witness ==
    /\ DoneEmitted
    /\ \E p \in Emitted : \A i \in RootIds :
           IsBelow(repoScanRoots[i], p)
               => Dist(repoScanRoots[i], p) = repoScanMaxDepth + 1
    /\ \E q \in gitRepos \ Emitted : \E i \in RootIds :
           /\ IsBelow(repoScanRoots[i], q)
           /\ Dist(repoScanRoots[i], q) = repoScanMaxDepth + 2
           /\ \A n \in Len(repoScanRoots[i])..(Len(q) - 1) :
                  /\ Prefix(q, n) \notin unreadable
                  /\ n > Len(repoScanRoots[i]) => Prefix(q, n) \notin gitRepos

(***************************************************************************)
(* C3: a scan that is not cancelled eventually ends with a terminal        *)
(* record; at most one terminal record (done or error, never both) is ever *)
(* emitted and nothing is emitted after it.                                *)
(***************************************************************************)
C3_TerminalShape ==
    /\ Cardinality(Terminals(out)) <= 1
    /\ \A k \in Terminals(out) : k = Len(out)
    /\ ~(DoneEmitted /\ ErrorEmitted)

C4_TotalIsCount ==
    \A k \in 1..Len(out) :
        out[k].type = "done" =>
            /\ out[k].total = Cardinality({n \in RepoIndexes : n < k})
            /\ out[k].total = Cardinality(seenPaths)
            /\ out[k].total = Cardinality(Emitted)

\* a completed scan in which a duplicate was dropped
C4_Witness ==
    /\ DoneEmitted
    /\ out[Len(out)].total >= 2
    /\ \E p \in Dirs : Cardinality(RootsReaching(p)) >= 2

(***************************************************************************)
(* C5 as stated: once the consumer has cancelled, no traversal takes a     *)
(* further step and no record is emitted.                                  *)
(***************************************************************************)
C5_Original ==
    [][(Cancelled /\ runs' = runs) => (pending' = pending /\ out' = out)]_vars

(***************************************************************************)
(* C6: while the scan runs, every root's unfinished traversal can take its *)
(* next step and a repository already found can be emitted, whatever the   *)
(* other roots' traversals have or have not done.                          *)
(***************************************************************************)
C6_NoRootBlocks ==
    phase = "running" =>
        /\ \A i \in RootIds :
               pending[i] # <<>>
                   => ENABLED (ScanForReposStream(i) \/ TestEntry(i))
        /\ merged # <<>> => ENABLED RunForEach

\* a repository found under the second root is out while the first root's
\* traversal has not taken a step
C6_Witness ==
    /\ phase = "running"
    /\ Len(repoScanRoots) = 2
    /\ pending[1] = <<CallItem(repoScanRoots[1], 0)>>
    /\ RepoIndexes # {}

(***************************************************************************)
(* C7: an unreadable directory is an empty subtree: no error record        *)
(* results from it, every repository reachable through readable            *)
(* directories of the same and of the other roots is emitted by the time   *)
(* the scan completes, and a scan that neither fails as a whole nor is     *)
(* cancelled ends with done.                                               *)
(***************************************************************************)
C7_UnreadableIsEmpty ==
    /\ ErrorEmitted => opFailed
    /\ DoneEmitted => Emitted = Expected
    /\ (phase = "closed" /\ ~opFailed /\ ~Cancelled)
           => (out # <<>> /\ out[Len(out)].type = "done")

\* a root that cannot be read, next to a root that yields a repository
C7_Witness ==
    /\ phase = "closed"
    /\ DoneEmitted
    /\ \E i \in RootIds : repoScanRoots[i] \in unreadable
    /\ Emitted # {}

(***************************************************************************)
(* C8: a scan that finds nothing, the empty root list included, ends with  *)
(* done and total 0; an error record is emitted only when the discovery    *)
(* effect itself failed.                                                   *)
(***************************************************************************)
C8_ZeroResultsIsDone ==
    /\ (phase = "closed" /\ Expected = {} /\ ~opFailed /\ ~Cancelled)
           => out = <<DoneRecord(0)>>
    /\ (DoneEmitted /\ Emitted = {}) => out = <<DoneRecord(0)>>
    /\ ErrorEmitted => opFailed

C8_Witness ==
    /\ phase = "closed"
    /\ repoScanRoots = <<>>
    /\ out = <<DoneRecord(0)>>

(***************************************************************************)
(* C9: a scan that completes after an earlier completed scan of the same   *)
(* roots, maxDepth and filesystem reports the same set of paths and the    *)
(* same total.                                                             *)
(***************************************************************************)
C9_RunsAgree ==
    (DoneEmitted /\ prevRun # NoRun) =>
        /\ Emitted = prevRun.paths
        /\ out[Len(out)].total = prevRun.total

\* both scans completed, and they emitted in different orders
C9_Witness ==
    /\ DoneEmitted
    /\ prevRun # NoRun
    /\ prevRun.total >= 2
    /\ prevRun.order # RepoOrderOf(out)

(***************************************************************************)
(* The diff viewer: DiffViewerClient's reducer state, its effects and its  *)
(* handlers.                                                               *)
(***************************************************************************)
\* AUTO_COLLAPSE_PATTERNS.some(pattern => pattern.test(filePath)) over the
\* paths that occur
MatchesAutoCollapsePattern(filePath) ==
    filePath \in {"yarn.lock", "Cargo.lock", "package-lock.json"}

\* variant: a file at the threshold is collapsed as well
shouldAutoCollapseFileAtThreshold(filePath, totalChanges, threshold) ==
    \/ MatchesAutoCollapsePattern(filePath)
    \/ totalChanges >= threshold

shouldAutoCollapseFile(filePath, totalChanges, threshold) ==
    \/ MatchesAutoCollapsePattern(filePath)
    \/ totalChanges > threshold

diffViewerReducer(st, action) ==
    CASE action.type = "SET_COMMENT_FORM" ->
             [st EXCEPT !.commentForm = action.payload]
      [] action.type = "SET_SELECTED_LINES" ->
             [st EXCEPT !.selectedLines = action.payload]
      [] action.type = "SET_EXPANDED_FILES" ->
             [st EXCEPT !.expandedFiles = action.payload]
      [] action.type = "TOGGLE_FILE_EXPANDED" ->
             [st EXCEPT !.expandedFiles =
                 IF action.payload \in st.expandedFiles
                 THEN st.expandedFiles \ {action.payload}
                 ELSE st.expandedFiles \cup {action.payload}]
      [] action.type = "COLLAPSE_ALL" ->
             [st EXCEPT !.expandedFiles = {}]
      [] action.type = "SET_IS_INITIALIZED" ->
             [st EXCEPT !.isInitialized = action.payload]
      [] action.type = "SET_LOADED_FILES" ->
             [st EXCEPT !.loadedFiles = action.payload]
      [] action.type = "MARK_FILE_LOADED" ->
             IF action.payload \in st.loadedFiles
             THEN st
             ELSE [st EXCEPT !.loadedFiles = st.loadedFiles \cup {action.payload}]
      [] action.type = "CLOSE_COMMENT" ->
             [st EXCEPT !.commentForm = Null, !.selectedLines = EmptyMap]
      [] action.type = "RESET_FOR_NEW_DIFF" ->
             [st EXCEPT !.isInitialized = FALSE,
                        !.expandedFiles = {},
                        !.loadedFiles = {}]
      [] OTHER -> st

\* allFiles of a render: empty until the diff library is there
AllFilesOf(diff, loaded) == IF loaded THEN ParsePatchFiles(diff) ELSE <<>>

allFiles == AllFilesOf(rawDiff, DiffComponents)

FilePaths(files) == {files[k] : k \in 1..Len(files)}

\* an auto-expand loop in which a skipped file uses up quota
RECURSIVE InitialExpandedCountsSkipped(_, _, _, _)
InitialExpandedCountsSkipped(files, i, expandedCount, threshold) ==
    IF ~(i <= Len(files) /\ expandedCount < DEFAULT_EXPANDED_COUNT)
    THEN {}
    ELSE IF shouldAutoCollapseFile(files[i], TotalChanges(files[i]), threshold)
         THEN InitialExpandedCountsSkipped(files, i + 1, expandedCount + 1,
                                           threshold)
         ELSE {files[i]}
                  \cup InitialExpandedCountsSkipped(files, i + 1,
                                                    expandedCount + 1,
                                                    threshold)

\* the auto-expand loop: files in diff order, until the quota is met
RECURSIVE InitialExpanded(_, _, _, _)
InitialExpanded(files, i, expandedCount, threshold) ==
    IF ~(i <= Len(files) /\ expandedCount < DEFAULT_EXPANDED_COUNT)
    THEN {}
    ELSE IF shouldAutoCollapseFile(files[i], TotalChanges(files[i]), threshold)
         THEN InitialExpanded(files, i + 1, expandedCount, threshold)
         ELSE {files[i]}
                  \cup InitialExpanded(files, i + 1, expandedCount + 1, threshold)

\* variant: the effect does not look at isInitialized
AutoExpandEffectUnguarded(st, files) ==
    IF Len(files) > 0
    THEN diffViewerReducer(
             diffViewerReducer(st,
                 [type |-> "SET_EXPANDED_FILES",
                  payload |-> InitialExpanded(files, 1, 0,
                                              largeFileThreshold)]),
             [type |-> "SET_IS_INITIALIZED", payload |-> TRUE])
    ELSE st

\* the body of the auto-expand effect, run in a render that saw `files`
\* and the state st
AutoExpandEffect(st, files) ==
    IF Len(files) > 0 /\ ~st.isInitialized
    THEN diffViewerReducer(
             diffViewerReducer(st,
                 [type |-> "SET_EXPANDED_FILES",
                  payload |-> InitialExpanded(files, 1, 0,
                                              largeFileThreshold)]),
             [type |-> "SET_IS_INITIALIZED", payload |-> TRUE])
    ELSE st

\* the dependencies of the auto-expand effect in the current render
CurrentDeps ==
    [allFiles |-> <<rawDiff, DiffComponents>>,
     isInitialized |-> state.isInitialized,
     fileMetadataMap |-> fileMetadataMap,
     largeFileThreshold |-> largeFileThreshold]

\* a render is committed whose auto-expand effect has not run yet
EffectPending == initDeps # CurrentDeps

\* the import of the diff library resolves: setDiffComponents
LoadDiffComponents ==
    /\ ~EffectPending
    /\ ~DiffComponents
    /\ DiffComponents' = TRUE
    /\ UNCHANGED <<rawDiff, state, initDeps>>
    /\ UNCHANGED <<propVars, refVars>>
    /\ scrollToFileRef' = state'.expandedFiles
    /\ UNCHANGED <<scanVars, pickerVars, storeVars>>

\* the auto-expand effect of a committed render whose dependencies changed
InitEffect ==
    /\ EffectPending
    /\ state' = AutoExpandEffect(state, allFiles)
    /\ initDeps' = CurrentDeps
    /\ UNCHANGED <<rawDiff, DiffComponents>>
    /\ UNCHANGED <<propVars, refVars>>
    /\ scrollToFileRef' = state.expandedFiles
    /\ UNCHANGED <<scanVars, pickerVars, storeVars>>

\* the parent passes another rawDiff: the render's effects run in source
\* order, the auto-expand effect (allFiles changed) with the state this
\* render saw, then the reset effect
SetRawDiff(diff) ==
    /\ ~EffectPending
    /\ diff # rawDiff
    /\ rawDiff' = diff
    /\ state' = diffViewerReducer(
                    AutoExpandEffect(state, AllFilesOf(diff, DiffComponents)),
                    [type |-> "RESET_FOR_NEW_DIFF"])
    /\ initDeps' = [allFiles |-> <<diff, DiffComponents>>,
                    isInitialized |-> state.isInitialized,
                    fileMetadataMap |-> fileMetadataMap,
                    largeFileThreshold |-> largeFileThreshold]
    /\ UNCHANGED DiffComponents
    /\ UNCHANGED <<propVars, refVars>>
    /\ scrollToFileRef' = state'.expandedFiles
    /\ UNCHANGED <<scanVars, pickerVars, storeVars>>

\* a toggle that also forgets that the file was loaded
toggleFileExpandedUnloads(filePath) ==
    /\ ~EffectPending
    /\ filePath \in FilePaths(allFiles)
    /\ state' = diffViewerReducer(
                    diffViewerReducer(state,
                        [type |-> "TOGGLE_FILE_EXPANDED",
                         payload |-> filePath]),
                    [type |-> "SET_LOADED_FILES",
                     payload |-> state.loadedFiles \ {filePath}])
    /\ UNCHANGED <<rawDiff, DiffComponents, initDeps>>
    /\ UNCHANGED <<propVars, refVars>>
    /\ scrollToFileRef' = state'.expandedFiles
    /\ UNCHANGED <<scanVars, pickerVars, storeVars>>

toggleFileExpanded(filePath) ==
    /\ ~EffectPending
    /\ filePath \in FilePaths(allFiles)
    /\ state' = diffViewerReducer(state,
                    [type |-> "TOGGLE_FILE_EXPANDED", payload |-> filePath])
    /\ UNCHANGED <<rawDiff, DiffComponents, initDeps>>
    /\ UNCHANGED <<propVars, refVars>>
    /\ scrollToFileRef' = state'.expandedFiles
    /\ UNCHANGED <<scanVars, pickerVars, storeVars>>

\* a collapse-all that dispatches the reset
collapseAllResets ==
    /\ ~EffectPending
    /\ DiffComponents
    /\ state' = diffViewerReducer(state, [type |-> "RESET_FOR_NEW_DIFF"])
    /\ UNCHANGED <<rawDiff, DiffComponents, initDeps>>
    /\ UNCHANGED <<propVars, refVars>>
    /\ scrollToFileRef' = state'.expandedFiles
    /\ UNCHANGED <<scanVars, pickerVars, storeVars>>

collapseAll ==
    /\ ~EffectPending
    /\ DiffComponents
    /\ state' = diffViewerReducer(state, [type |-> "COLLAPSE_ALL"])
    /\ UNCHANGED <<rawDiff, DiffComponents, initDeps>>
    /\ UNCHANGED <<propVars, refVars>>
    /\ scrollToFileRef' = state'.expandedFiles
    /\ UNCHANGED <<scanVars, pickerVars, storeVars>>

\* the file header's File button, rendered while the file is expanded
handleFileComment(filePath) ==
    /\ ~EffectPending
    /\ filePath \in FilePaths(allFiles)
    /\ filePath \in state.expandedFiles
    /\ state' = diffViewerReducer(state,
                    [type |-> "SET_COMMENT_FORM",
                     payload |-> [filePath |-> filePath,
                                  side |-> "additions",
                                  isFileComment |-> TRUE]])
    /\ UNCHANGED <<rawDiff, DiffComponents, initDeps>>
    /\ UNCHANGED <<propVars, refVars>>
    /\ scrollToFileRef' = state'.expandedFiles
    /\ UNCHANGED <<scanVars, pickerVars, storeVars>>

\* the comment form is on the page: a file comment's form at the top of
\* its expanded file, any other form as an annotation of the shown FileDiff
CommentFormRendered ==
    /\ state.commentForm # Null
    /\ state.commentForm.filePath \in FilePaths(allFiles)
    /\ state.commentForm.filePath \in state.expandedFiles
    /\ "isFileComment" \notin DOMAIN state.commentForm =>
           state.commentForm.filePath \in state.loadedFiles

\* a close of the comment form that leaves the selections
handleCloseCommentKeepsSelections ==
    /\ ~EffectPending
    /\ CommentFormRendered
    /\ state' = diffViewerReducer(state,
                    [type |-> "SET_COMMENT_FORM", payload |-> Null])
    /\ UNCHANGED <<rawDiff, DiffComponents, initDeps>>
    /\ UNCHANGED <<propVars, refVars>>
    /\ scrollToFileRef' = state'.expandedFiles
    /\ UNCHANGED <<scanVars, pickerVars, storeVars>>

\* the comment form's close
handleCloseComment ==
    /\ ~EffectPending
    /\ CommentFormRendered
    /\ state' = diffViewerReducer(state, [type |-> "CLOSE_COMMENT"])
    /\ UNCHANGED <<rawDiff, DiffComponents, initDeps>>
    /\ UNCHANGED <<propVars, refVars>>
    /\ scrollToFileRef' = state'.expandedFiles
    /\ UNCHANGED <<scanVars, pickerVars, storeVars>>

\* a completion that replaces the loaded set by its own file
markFileLoadedReplaces(filePath) ==
    /\ ~EffectPending
    /\ filePath \in FilePaths(allFiles)
    /\ filePath \in state.expandedFiles
    /\ state' = diffViewerReducer(state,
                    [type |-> "SET_LOADED_FILES", payload |-> {filePath}])
    /\ UNCHANGED <<rawDiff, DiffComponents, initDeps>>
    /\ UNCHANGED <<propVars, refVars>>
    /\ scrollToFileRef' = state'.expandedFiles
    /\ UNCHANGED <<scanVars, pickerVars, storeVars>>

\* a timer that is not cleared when its FileDiffWrapper is unmounted: it
\* fires for a file of the diff whether the file is expanded or not
markFileLoadedAfterUnmount(filePath) ==
    /\ filePath \in FilePaths(allFiles)
    /\ state' = diffViewerReducer(state,
                    [type |-> "MARK_FILE_LOADED", payload |-> filePath])
    /\ UNCHANGED <<rawDiff, DiffComponents, initDeps>>
    /\ UNCHANGED <<propVars, refVars>>
    /\ scrollToFileRef' = state'.expandedFiles
    /\ UNCHANGED <<scanVars, pickerVars, storeVars>>

\* FileDiffWrapper's 50 ms timer fires: onLoaded. The wrapper is rendered
\* only while its file is expanded, its effect sets the timer again after
\* every render (onLoaded is a new function each time) and the effect's
\* cleanup clears the timer when the wrapper is unmounted, so the files with
\* a timer are the expanded files of the diff
markFileLoaded(filePath) ==
    /\ ~EffectPending
    /\ filePath \in FilePaths(allFiles)
    /\ filePath \in state.expandedFiles
    /\ state' = diffViewerReducer(state,
                    [type |-> "MARK_FILE_LOADED", payload |-> filePath])
    /\ UNCHANGED <<rawDiff, DiffComponents, initDeps>>
    /\ UNCHANGED <<propVars, refVars>>
    /\ scrollToFileRef' = state'.expandedFiles
    /\ UNCHANGED <<scanVars, pickerVars, storeVars>>

\* line_start, line_end of a comment: null
NullLine == 0

\* getHoveredLine(): undefined
Undefined == [undefined |-> TRUE]

MathMin(a, b) == IF a < b THEN a ELSE b

MathMax(a, b) == IF a > b THEN a ELSE b

\* new Map(map).set(key, value)
MapSet(map, key, value) ==
    [k \in DOMAIN map \cup {key} |-> IF k = key THEN value ELSE map[k]]

\* fileMap.get(line).push(comment), the entry created when missing; with
\* `once` the comment is pushed only if the entry does not include it
IndexAt(fileMap, line, comment, once) ==
    IF line \notin DOMAIN fileMap
    THEN fileMap @@ (line :> <<comment>>)
    ELSE IF once /\ \E k \in 1..Len(fileMap[line]) : fileMap[line][k] = comment
         THEN fileMap
         ELSE [fileMap EXCEPT ![line] = Append(@, comment)]

\* a loop body that indexes a range at the line after its start as well
IndexCommentCoversRange(map, comment) ==
    LET withFile == IF comment.file_path \in DOMAIN map
                    THEN map
                    ELSE map @@ (comment.file_path :> EmptyMap)
        fileMap == withFile[comment.file_path]
        atStart == IndexAt(fileMap, comment.line_start, comment, FALSE)
        atEnd == IF /\ comment.line_end # NullLine
                    /\ comment.line_end # comment.line_start
                 THEN IndexAt(atStart, comment.line_end, comment, TRUE)
                 ELSE atStart
        atNext == IF /\ comment.line_end # NullLine
                     /\ comment.line_start + 1 < comment.line_end
                  THEN IndexAt(atEnd, comment.line_start + 1, comment, TRUE)
                  ELSE atEnd
    IN  IF comment.line_start # NullLine
        THEN [withFile EXCEPT ![comment.file_path] = atNext]
        ELSE withFile

\* the body of buildCommentMap's loop for one comment
IndexComment(map, comment) ==
    LET withFile == IF comment.file_path \in DOMAIN map
                    THEN map
                    ELSE map @@ (comment.file_path :> EmptyMap)
        fileMap == withFile[comment.file_path]
        atStart == IndexAt(fileMap, comment.line_start, comment, FALSE)
        atEnd == IF /\ comment.line_end # NullLine
                    /\ comment.line_end # comment.line_start
                 THEN IndexAt(atStart, comment.line_end, comment, TRUE)
                 ELSE atStart
    IN  IF comment.line_start # NullLine
        THEN [withFile EXCEPT ![comment.file_path] = atEnd]
        ELSE withFile

RECURSIVE buildCommentMapFrom(_, _, _)
buildCommentMapFrom(comments, i, map) ==
    IF i > Len(comments)
    THEN map
    ELSE buildCommentMapFrom(comments, i + 1, IndexComment(map, comments[i]))

buildCommentMap(comments) == buildCommentMapFrom(comments, 1, EmptyMap)

\* useMemo(() => buildCommentMap(existingComments), [existingComments])
commentMap == buildCommentMap(existingComments)

\* a loop over hunk.hunkContent in which removed lines advance the line
\* number
RECURSIVE ChangedLinesFromCountsDeletions(_, _, _, _, _)
ChangedLinesFromCountsDeletions(hunkContent, i, lineNumber, firstChangeLine, lastChangeLine) ==
    IF i > Len(hunkContent)
    THEN [first |-> firstChangeLine, last |-> lastChangeLine]
    ELSE LET content == hunkContent[i] IN
         IF content.type = "context"
         THEN ChangedLinesFromCountsDeletions(
                  hunkContent, i + 1, lineNumber + content.lines,
                  firstChangeLine, lastChangeLine)
         ELSE IF content.type = "change" /\ content.additions > 0
         THEN ChangedLinesFromCountsDeletions(
                  hunkContent, i + 1,
                  lineNumber + content.additions + content.deletions,
                  IF firstChangeLine = <<>>
                  THEN <<lineNumber>>
                  ELSE firstChangeLine,
                  <<lineNumber + content.additions + content.deletions - 1>>)
         ELSE ChangedLinesFromCountsDeletions(
                  hunkContent, i + 1, lineNumber,
                  firstChangeLine, lastChangeLine)

\* the loop of getActualChangedLineRange over hunk.hunkContent from item i;
\* firstChangeLine and lastChangeLine are <<>> for null and <<n>> for n
RECURSIVE ChangedLinesFrom(_, _, _, _, _)
ChangedLinesFrom(hunkContent, i, lineNumber, firstChangeLine, lastChangeLine) ==
    IF i > Len(hunkContent)
    THEN [first |-> firstChangeLine, last |-> lastChangeLine]
    ELSE LET content == hunkContent[i] IN
         IF content.type = "context"
         THEN ChangedLinesFrom(hunkContent, i + 1, lineNumber + content.lines,
                               firstChangeLine, lastChangeLine)
         ELSE IF content.type = "change" /\ content.additions > 0
         THEN ChangedLinesFrom(hunkContent, i + 1,
                               lineNumber + content.additions,
                               IF firstChangeLine = <<>>
                               THEN <<lineNumber>>
                               ELSE firstChangeLine,
                               <<lineNumber + content.additions - 1>>)
         ELSE ChangedLinesFrom(hunkContent, i + 1, lineNumber,
                               firstChangeLine, lastChangeLine)

getActualChangedLineRange(hunk) ==
    LET found == ChangedLinesFrom(hunk.hunkContent, 1, hunk.additionStart,
                                  <<>>, <<>>)
    IN  [start |-> IF found.first # <<>>
                   THEN found.first[1]
                   ELSE hunk.additionStart,
         end |-> IF found.last # <<>>
                 THEN found.last[1]
                 ELSE hunk.additionStart + hunk.additionLines - 1]

\* FileDiffWrapper of the file is rendered (the file is expanded) and shown
\* (display: block once the file is loaded)
FileDiffShown(filePath) ==
    /\ filePath \in FilePaths(allFiles)
    /\ filePath \in state.expandedFiles
    /\ filePath \in state.loadedFiles

\* the hover button or a gutter badge of a shown file is clicked on a line
handleAddComment(filePath, hoveredLine) ==
    /\ ~EffectPending
    /\ FileDiffShown(filePath)
    /\ ~justSelectedMultiLineRef
    /\ hoveredLine # Undefined
    /\ state' = diffViewerReducer(state,
                    [type |-> "SET_COMMENT_FORM",
                     payload |-> [filePath |-> filePath,
                                  lineStart |-> hoveredLine.lineNumber,
                                  side |-> hoveredLine.side]])
    /\ UNCHANGED <<rawDiff, DiffComponents, initDeps>>
    /\ UNCHANGED <<propVars, refVars>>
    /\ scrollToFileRef' = state'.expandedFiles
    /\ UNCHANGED <<scanVars, pickerVars, storeVars>>

\* a line selection of a shown file ends; the callback is created once
\* (dependencies []), so its selectedLines is the Map of the first render
handleLineSelectionEnd(filePath, range) ==
    /\ ~EffectPending
    /\ FileDiffShown(filePath)
    /\ range # Null
    /\ LET isMultiLine == range.start # range.end IN
       /\ isMultiLine => timers < MaxTimers
       /\ justSelectedMultiLineRef' = isMultiLine
       /\ timers' = IF isMultiLine THEN timers + 1 ELSE timers
    /\ state' = diffViewerReducer(
                    diffViewerReducer(state,
                        [type |-> "SET_SELECTED_LINES",
                         payload |-> MapSet(
                             initialDiffViewerState.selectedLines,
                             filePath, range)]),
                    [type |-> "SET_COMMENT_FORM",
                     payload |-> [filePath |-> filePath,
                                  lineStart |-> MathMin(range.start, range.end),
                                  lineEnd |-> MathMax(range.start, range.end),
                                  side |-> IF "side" \in DOMAIN range
                                           THEN range.side
                                           ELSE "additions"]])
    /\ UNCHANGED <<rawDiff, DiffComponents, initDeps>>
    /\ UNCHANGED propVars
    /\ scrollToFileRef' = state'.expandedFiles
    /\ UNCHANGED <<scanVars, pickerVars, storeVars>>

\* a timeout set by handleLineSelectionEnd expires
ResetJustSelected ==
    /\ ~EffectPending
    /\ timers > 0
    /\ justSelectedMultiLineRef' = FALSE
    /\ timers' = timers - 1
    /\ UNCHANGED <<rawDiff, DiffComponents, state, initDeps>>
    /\ UNCHANGED propVars
    /\ UNCHANGED scrollToFileRef
    /\ UNCHANGED <<scanVars, pickerVars, storeVars>>

\* the hunk menu of a file header, rendered while the file is expanded
handleHunkComment(filePath, hunk) ==
    /\ ~EffectPending
    /\ filePath \in FilePaths(allFiles)
    /\ filePath \in state.expandedFiles
    /\ hunk \in fileHunks[filePath]
    /\ state' = diffViewerReducer(state,
                    [type |-> "SET_COMMENT_FORM",
                     payload |-> [filePath |-> filePath,
                                  lineStart |->
                                      getActualChangedLineRange(hunk).start,
                                  lineEnd |->
                                      getActualChangedLineRange(hunk).end,
                                  side |-> "additions"]])
    /\ UNCHANGED <<rawDiff, DiffComponents, initDeps>>
    /\ UNCHANGED <<propVars, refVars>>
    /\ scrollToFileRef' = state'.expandedFiles
    /\ UNCHANGED <<scanVars, pickerVars, storeVars>>

\* the parent passes another list of comments
SetExistingComments(comments) ==
    /\ ~EffectPending
    /\ comments # existingComments
    /\ existingComments' = comments
    /\ UNCHANGED <<rawDiff, DiffComponents, state, initDeps>>
    /\ UNCHANGED <<fileMetadataMap, largeFileThreshold, fileHunks, refVars>>
    /\ scrollToFileRef' = state'.expandedFiles
    /\ UNCHANGED <<scanVars, pickerVars, storeVars>>

isCommentingOnThisFile(filePath) ==
    /\ state.commentForm # Null
    /\ state.commentForm.filePath = filePath

\* the indicator annotations a render builds for a file
indicatorAnnotations(filePath) ==
    IF filePath \in DOMAIN commentMap
    THEN {[side |-> "additions", lineNumber |-> lineNum,
           comments |-> commentMap[filePath][lineNum]] :
             lineNum \in
                 {l \in DOMAIN commentMap[filePath] :
                     ~(/\ isCommentingOnThisFile(filePath)
                       /\ "lineStart" \in DOMAIN state.commentForm
                       /\ state.commentForm.lineStart = l)}}
    ELSE {}

\* the lines a click of the hover button lands on
HoveredLines ==
    <<[lineNumber |-> 1, side |-> "additions"],
      [lineNumber |-> 2, side |-> "deletions"]>>

\* the ranges a line selection ends with (side is optional)
SelectedLineRanges ==
    <<[start |-> 1, end |-> 1],
      [start |-> 2, end |-> 1],
      [start |-> 1, end |-> 2, side |-> "deletions"]>>

\* the comment lists the viewer is given
ViewComments ==
    {<<>>,
     <<[id |-> 1, file_path |-> "src/a.ts", line_start |-> 1, line_end |-> 2],
       [id |-> 2, file_path |-> "src/a.ts", line_start |-> NullLine,
        line_end |-> NullLine],
       [id |-> 3, file_path |-> "src/b.ts", line_start |-> 2,
        line_end |-> NullLine]>>}

\* the files whose lines are clicked and selected
SelectFiles == {"src/a.ts", "src/b.ts"}

ViewFiles == {"src/a.ts", "src/b.ts", "src/big.ts", "yarn.lock"}

ViewNext ==
    \/ LoadDiffComponents
    \/ InitEffect
    \/ \E diff \in RawDiffs : SetRawDiff(diff)
    \/ \E f \in ViewFiles : toggleFileExpanded(f)
    \/ collapseAll
    \/ \E f \in ViewFiles : handleFileComment(f)
    \/ handleCloseComment
    \/ \E f \in ViewFiles : markFileLoaded(f)
    \/ \E f \in SelectFiles, k \in DOMAIN HoveredLines :
           handleAddComment(f, HoveredLines[k])
    \/ \E f \in SelectFiles, k \in DOMAIN SelectedLineRanges :
           handleLineSelectionEnd(f, SelectedLineRanges[k])
    \/ ResetJustSelected
    \/ \E f \in SelectFiles : \E hunk \in fileHunks[f] :
           handleHunkComment(f, hunk)
    \/ \E comments \in ViewComments : SetExistingComments(comments)

\* the viewer is mounted with some raw diff; no scan runs
ViewInit ==
    /\ repoScanRoots = <<>>
    /\ repoScanMaxDepth = 0
    /\ gitRepos = {}
    /\ unreadable = {}
    /\ phase = "idle"
    /\ pending = <<>>
    /\ merged = <<>>
    /\ seenPaths = {}
    /\ repos = <<>>
    /\ out = <<>>
    /\ controller = "none"
    /\ opFailed = FALSE
    /\ runs = 0
    /\ prevRun = NoRun
    /\ suspended = IdleLocals
    /\ PickerIdle
    /\ StoreIdle
    /\ rawDiff \in RawDiffs
    /\ DiffComponents = FALSE
    /\ state = initialDiffViewerState
    /\ fileMetadataMap = FilesProp
    /\ largeFileThreshold = DEFAULT_LARGE_FILE_THRESHOLD
    /\ initDeps = [allFiles |-> <<rawDiff, FALSE>>, isInitialized |-> FALSE,
                   fileMetadataMap |-> fileMetadataMap,
                   largeFileThreshold |-> largeFileThreshold]
    /\ existingComments = <<>>
    /\ fileHunks = ParsedHunks
    /\ justSelectedMultiLineRef = FALSE
    /\ timers = 0
    /\ scrollToFileRef = state.expandedFiles

ViewSpec == ViewInit /\ [][ViewNext]_vars

(***************************************************************************)
(* C10 as stated: a new raw diff leaves the view Uninitialized with        *)
(* expandedFiles and loadedFiles empty and no authoring target active.     *)
(***************************************************************************)
C10_Original ==
    [][rawDiff' # rawDiff =>
           /\ state'.isInitialized = FALSE
           /\ state'.expandedFiles = {}
           /\ state'.loadedFiles = {}
           /\ state'.commentForm = Null]_vars

(***************************************************************************)
(* C11 as stated: whenever an authoring target is set, the file it names   *)
(* is a member of expandedFiles.                                           *)
(***************************************************************************)
C11_Original ==
    state.commentForm # Null =>
        state.commentForm.filePath \in state.expandedFiles

(***************************************************************************)
(* The auto-expand policy over the files props: the viewer is mounted with *)
(* a raw diff and a files prop, the diff library loads and the auto-expand *)
(* effect runs.                                                            *)
(***************************************************************************)
\* the files of LongDiff that match no auto-collapse pattern
LongPaths ==
    {ParsePatchFiles(LongDiff)[k] : k \in DOMAIN ParsePatchFiles(LongDiff)}
        \ {"Cargo.lock", "package-lock.json"}

\* the files props: each file of LongDiff either at the threshold or above
MetadataMaps ==
    {FilesProp @@ [p \in LongPaths |->
                      IF p \in large
                      THEN [additions |-> 400, deletions |-> 101]
                      ELSE [additions |-> 250, deletions |-> 250]] :
        large \in SUBSET LongPaths}

\* the largeFileThreshold props: the default, and the total of src/a.ts
Thresholds == {DEFAULT_LARGE_FILE_THRESHOLD, 12}

ExpandInit ==
    /\ repoScanRoots = <<>>
    /\ repoScanMaxDepth = 0
    /\ gitRepos = {}
    /\ unreadable = {}
    /\ phase = "idle"
    /\ pending = <<>>
    /\ merged = <<>>
    /\ seenPaths = {}
    /\ repos = <<>>
    /\ out = <<>>
    /\ controller = "none"
    /\ opFailed = FALSE
    /\ runs = 0
    /\ prevRun = NoRun
    /\ suspended = IdleLocals
    /\ PickerIdle
    /\ StoreIdle
    /\ rawDiff \in RawDiffs \cup {LongDiff}
    /\ DiffComponents = FALSE
    /\ state = initialDiffViewerState
    /\ fileMetadataMap \in MetadataMaps
    /\ largeFileThreshold \in Thresholds
    /\ initDeps = [allFiles |-> <<rawDiff, FALSE>>, isInitialized |-> FALSE,
                   fileMetadataMap |-> fileMetadataMap,
                   largeFileThreshold |-> largeFileThreshold]
    /\ existingComments = <<>>
    /\ fileHunks = ParsedHunks
    /\ justSelectedMultiLineRef = FALSE
    /\ timers = 0
    /\ scrollToFileRef = state.expandedFiles

ExpandNext == LoadDiffComponents \/ InitEffect

ExpandSpec == ExpandInit /\ [][ExpandNext]_vars

\* the files that are not auto-collapsed, in diff order
EligibleFiles(files) ==
    SelectSeq(files,
              LAMBDA f : ~shouldAutoCollapseFile(f, TotalChanges(f),
                                                 largeFileThreshold))

\* the first min(quota, number of eligible files) eligible files
FirstEligible(files) ==
    {EligibleFiles(files)[k] :
        k \in 1..MathMin(DEFAULT_EXPANDED_COUNT, Len(EligibleFiles(files)))}

(***************************************************************************)
(* C12: the step that initializes a diff leaves expandedFiles exactly the  *)
(* first min(quota, number of eligible files) files of the diff, in diff   *)
(* order, that are not auto-collapsed: an auto-collapsed file is never     *)
(* expanded and uses up no quota.                                          *)
(***************************************************************************)
C12_AutoExpand ==
    [][(~state.isInitialized /\ state'.isInitialized) =>
           state'.expandedFiles = FirstEligible(allFiles)]_vars

\* initialized with more eligible files than the quota: the quota is met,
\* a file beyond the tenth position is expanded and a later eligible file
\* is not
C12_Witness ==
    /\ state.isInitialized
    /\ Len(EligibleFiles(allFiles)) > DEFAULT_EXPANDED_COUNT
    /\ Cardinality(state.expandedFiles) = DEFAULT_EXPANDED_COUNT
    /\ \E k \in DOMAIN allFiles :
           /\ k > DEFAULT_EXPANDED_COUNT
           /\ allFiles[k] \in state.expandedFiles
    /\ \E k \in DOMAIN allFiles :
           /\ allFiles[k] \notin state.expandedFiles
           /\ ~shouldAutoCollapseFile(allFiles[k], TotalChanges(allFiles[k]),
                                      largeFileThreshold)

(***************************************************************************)
(* C13 as stated: with a raw diff that yields no parsed file the viewer,   *)
(* once the diff library is loaded and the effects have run, is            *)
(* initialized with expandedFiles and loadedFiles empty.                   *)
(***************************************************************************)
C13_Original ==
    (DiffComponents /\ ParsePatchFiles(rawDiff) = <<>> /\ ~EffectPending) =>
        /\ state.isInitialized
        /\ state.expandedFiles = {}
        /\ state.loadedFiles = {}

(***************************************************************************)
(* C14: collapseAll leaves expandedFiles empty and leaves loadedFiles, the *)
(* comments, their index and the initialized flag as they were.            *)
(***************************************************************************)
C14_CollapseAllFrame ==
    [][collapseAll =>
           /\ state'.expandedFiles = {}
           /\ state'.loadedFiles = state.loadedFiles
           /\ existingComments' = existingComments
           /\ buildCommentMap(existingComments') = commentMap
           /\ state'.isInitialized = state.isInitialized]_vars

\* everything is collapsed while files are loaded and comments are indexed
C14_Witness ==
    /\ state.isInitialized
    /\ state.expandedFiles = {}
    /\ Cardinality(state.loadedFiles) >= 2
    /\ DOMAIN commentMap # {}

(***************************************************************************)
(* C15: no step other than the reset for another raw diff takes a file out *)
(* of loadedFiles.                                                         *)
(***************************************************************************)
C15_LoadedUntilReset ==
    [][rawDiff' = rawDiff =>
           state.loadedFiles \subseteq state'.loadedFiles]_vars

\* a file is still loaded after it was collapsed, lines of another file
\* were selected and the comment form was opened
C15_Witness ==
    \E f \in state.loadedFiles :
        /\ f \notin state.expandedFiles
        /\ state.commentForm # Null
        /\ DOMAIN state.selectedLines # {}
        /\ f \notin DOMAIN state.selectedLines

(***************************************************************************)
(* The comment index over comment lists: the viewer is mounted without     *)
(* comments and is given lists that are longer by one comment each time.   *)
(***************************************************************************)
CommentFiles == {"src/a.ts", "src/b.ts"}

CommentShapes ==
    [file_path : CommentFiles,
     line_start : {NullLine} \cup 1..MaxLine,
     line_end : {NullLine} \cup 1..MaxLine]

\* the comments of a list are distinct objects
WithIds(shapes) ==
    [k \in DOMAIN shapes |->
        [id |-> k,
         file_path |-> shapes[k].file_path,
         line_start |-> shapes[k].line_start,
         line_end |-> shapes[k].line_end]]

CommentInit ==
    /\ repoScanRoots = <<>>
    /\ repoScanMaxDepth = 0
    /\ gitRepos = {}
    /\ unreadable = {}
    /\ phase = "idle"
    /\ pending = <<>>
    /\ merged = <<>>
    /\ seenPaths = {}
    /\ repos = <<>>
    /\ out = <<>>
    /\ controller = "none"
    /\ opFailed = FALSE
    /\ runs = 0
    /\ prevRun = NoRun
    /\ suspended = IdleLocals
    /\ PickerIdle
    /\ StoreIdle
    /\ rawDiff = "diff2"
    /\ DiffComponents = FALSE
    /\ state = initialDiffViewerState
    /\ fileMetadataMap = FilesProp
    /\ largeFileThreshold = DEFAULT_LARGE_FILE_THRESHOLD
    /\ initDeps = [allFiles |-> <<rawDiff, FALSE>>, isInitialized |-> FALSE,
                   fileMetadataMap |-> fileMetadataMap,
                   largeFileThreshold |-> largeFileThreshold]
    /\ existingComments = <<>>
    /\ fileHunks = ParsedHunks
    /\ justSelectedMultiLineRef = FALSE
    /\ timers = 0
    /\ scrollToFileRef = state.expandedFiles

CommentNext ==
    \E shape \in CommentShapes :
        /\ Len(existingComments) < MaxComments
        /\ SetExistingComments(WithIds(Append(existingComments, shape)))

CommentSpec == CommentInit /\ [][CommentNext]_vars

\* the comments of a file in the list
CommentsOf(filePath) ==
    {existingComments[k] : k \in
        {i \in DOMAIN existingComments :
            existingComments[i].file_path = filePath}}

\* the index has an entry for the file at the line
IndexedAt(filePath, line) ==
    /\ filePath \in DOMAIN commentMap
    /\ line \in DOMAIN commentMap[filePath]

(***************************************************************************)
(* C16 as stated: the index of a file holds a file-level bucket (an entry  *)
(* under the null line) if and only if a comment of the file has a null    *)
(* line_start, and an entry at line L if and only if a comment of the file *)
(* has line_start = L or line_end = L.                                     *)
(***************************************************************************)
C16_Original ==
    \A f \in CommentFiles :
        /\ IndexedAt(f, NullLine) <=>
               \E c \in CommentsOf(f) : c.line_start = NullLine
        /\ \A L \in 1..MaxLine :
               IndexedAt(f, L) <=>
                   \E c \in CommentsOf(f) : c.line_start = L \/ c.line_end = L

(***************************************************************************)
(* C17 as stated: while a timeout of a multi-line selection is pending     *)
(* (the suppression window of that selection is open) a click of the hover *)
(* button leaves the authoring target as it is, whatever selections ended  *)
(* and timeouts expired in between; with no timeout pending the click sets *)
(* the target to the clicked line and side.                                *)
(***************************************************************************)
C17_Original ==
    [][\A f \in SelectFiles, k \in DOMAIN HoveredLines :
           handleAddComment(f, HoveredLines[k]) =>
               /\ timers > 0 => state'.commentForm = state.commentForm
               /\ timers = 0 =>
                      state'.commentForm =
                          [filePath |-> f,
                           lineStart |-> HoveredLines[k].lineNumber,
                           side |-> HoveredLines[k].side]]_vars

\* selectedLines.get(filePath) || null
SelectionOf(st, filePath) ==
    IF filePath \in DOMAIN st.selectedLines
    THEN st.selectedLines[filePath]
    ELSE Null

(***************************************************************************)
(* C18 as stated: the end of a line selection on a file leaves the         *)
(* selection recorded for every other file as it was.                      *)
(***************************************************************************)
C18_Original ==
    [][\A f \in SelectFiles, k \in DOMAIN SelectedLineRanges :
           handleLineSelectionEnd(f, SelectedLineRanges[k]) =>
               \A g \in ViewFiles \ {f} :
                   SelectionOf(state', g) = SelectionOf(state, g)]_vars

(***************************************************************************)
(* C19: closing the comment form clears the authoring target and the       *)
(* selections of all files and leaves expandedFiles, loadedFiles and the   *)
(* initialized flag as they were.                                          *)
(***************************************************************************)
C19_CloseFrame ==
    [][handleCloseComment =>
           /\ state'.commentForm = Null
           /\ \A f \in ViewFiles : SelectionOf(state', f) = Null
           /\ state'.expandedFiles = state.expandedFiles
           /\ state'.loadedFiles = state.loadedFiles
           /\ state'.isInitialized = state.isInitialized]_vars

\* the form can be closed while lines of a file other than the target's
\* are selected and files are expanded and loaded
C19_Witness ==
    /\ ENABLED handleCloseComment
    /\ \E f \in DOMAIN state.selectedLines : f # state.commentForm.filePath
    /\ state.loadedFiles # {}
    /\ state.isInitialized

\* the lines of the index entries of a file
IndexLines(filePath) ==
    IF filePath \in DOMAIN commentMap THEN DOMAIN commentMap[filePath] ELSE {}

\* the line or lines of the authoring target, if it is on the file
TargetLines(filePath) ==
    IF isCommentingOnThisFile(filePath)
    THEN {state.commentForm[field] :
             field \in {"lineStart", "lineEnd"} \cap DOMAIN state.commentForm}
    ELSE {}

(***************************************************************************)
(* C20 as stated: the indicators rendered for a file are the index entries *)
(* of the file except those at the lines of an authoring target on that    *)
(* file, lineStart and lineEnd both; without a target on the file every    *)
(* index entry has its indicator.                                          *)
(***************************************************************************)
C20_Original ==
    \A f \in ViewFiles :
        {a.lineNumber : a \in indicatorAnnotations(f)}
            = IndexLines(f) \ TargetLines(f)

(***************************************************************************)
(* The derived range over hunks: the viewer shows diff2 with both files    *)
(* expanded and loaded, src/a.ts has a hunk of any shape within the        *)
(* bounds, and the hunk menus are used.                                    *)
(***************************************************************************)
\* ContextContent with its number of lines, ChangeContent with its numbers
\* of added and removed lines
ContentBlocks ==
    {[type |-> "context", lines |-> n] : n \in 1..MaxBlockLines}
        \cup {[type |-> "change", additions |-> a, deletions |-> d] :
                 a \in 0..MaxBlockLines, d \in 0..1}

\* the lines on the additions side that a hunk content covers
RECURSIVE AdditionSideLines(_, _)
AdditionSideLines(hunkContent, n) ==
    IF n = 0
    THEN 0
    ELSE AdditionSideLines(hunkContent, n - 1)
             + (IF hunkContent[n].type = "context"
                THEN hunkContent[n].lines
                ELSE hunkContent[n].additions)

\* the hunks of a patch: additionLines is the number of lines the content
\* has on the additions side
BoundedHunks ==
    {[additionStart |-> start,
      additionLines |-> AdditionSideLines(content, Len(content)),
      hunkContent |-> content] :
        start \in {1, 50}, content \in SeqsUpTo(ContentBlocks, MaxBlocks)}

HunkInit ==
    /\ repoScanRoots = <<>>
    /\ repoScanMaxDepth = 0
    /\ gitRepos = {}
    /\ unreadable = {}
    /\ phase = "idle"
    /\ pending = <<>>
    /\ merged = <<>>
    /\ seenPaths = {}
    /\ repos = <<>>
    /\ out = <<>>
    /\ controller = "none"
    /\ opFailed = FALSE
    /\ runs = 0
    /\ prevRun = NoRun
    /\ suspended = IdleLocals
    /\ PickerIdle
    /\ StoreIdle
    /\ rawDiff = "diff2"
    /\ DiffComponents = TRUE
    /\ state = [initialDiffViewerState EXCEPT
                    !.expandedFiles = {"src/a.ts", "src/b.ts"},
                    !.isInitialized = TRUE,
                    !.loadedFiles = {"src/a.ts", "src/b.ts"}]
    /\ fileMetadataMap = FilesProp
    /\ largeFileThreshold = DEFAULT_LARGE_FILE_THRESHOLD
    /\ initDeps = [allFiles |-> <<rawDiff, TRUE>>, isInitialized |-> TRUE,
                   fileMetadataMap |-> fileMetadataMap,
                   largeFileThreshold |-> largeFileThreshold]
    /\ existingComments = <<>>
    /\ \E hunk \in BoundedHunks :
           fileHunks = [ParsedHunks EXCEPT !["src/a.ts"] = {hunk}]
    /\ justSelectedMultiLineRef = FALSE
    /\ timers = 0
    /\ scrollToFileRef = state.expandedFiles

HunkNext ==
    \/ \E f \in SelectFiles : \E hunk \in fileHunks[f] :
           handleHunkComment(f, hunk)
    \/ handleCloseComment

HunkSpec == HunkInit /\ [][HunkNext]_vars

\* the change blocks of a hunk that add lines
AddingBlocks(hunk) ==
    {i \in DOMAIN hunk.hunkContent :
        /\ hunk.hunkContent[i].type = "change"
        /\ hunk.hunkContent[i].additions > 0}

\* the context lines among the first n blocks
RECURSIVE ContextLinesIn(_, _)
ContextLinesIn(hunkContent, n) ==
    IF n = 0
    THEN 0
    ELSE ContextLinesIn(hunkContent, n - 1)
             + (IF hunkContent[n].type = "context"
                THEN hunkContent[n].lines
                ELSE 0)

\* the added lines among the first n blocks
RECURSIVE AddedLinesIn(_, _)
AddedLinesIn(hunkContent, n) ==
    IF n = 0
    THEN 0
    ELSE AddedLinesIn(hunkContent, n - 1)
             + (IF hunkContent[n].type = "change"
                THEN hunkContent[n].additions
                ELSE 0)

FirstOf(S) == CHOOSE i \in S : \A j \in S : i <= j

LastOf(S) == CHOOSE i \in S : \A j \in S : i >= j

\* the range the hunk menu is to open the form on
DerivedRange(hunk) ==
    IF AddingBlocks(hunk) = {}
    THEN [start |-> hunk.additionStart,
          end |-> hunk.additionStart + hunk.additionLines - 1]
    ELSE [start |-> hunk.additionStart
                        + ContextLinesIn(hunk.hunkContent,
                                         FirstOf(AddingBlocks(hunk)) - 1),
          end |-> hunk.additionStart
                      + ContextLinesIn(hunk.hunkContent,
                                       LastOf(AddingBlocks(hunk)))
                      + AddedLinesIn(hunk.hunkContent,
                                     LastOf(AddingBlocks(hunk)))
                      - 1]

(***************************************************************************)
(* C21: the hunk menu opens the form on the range that starts at           *)
(* additionStart plus the context lines before the first change block with *)
(* additions and ends at the last line added by the last change block with *)
(* additions (context and added lines counted, removed lines not); a hunk  *)
(* without additions gives additionStart to additionStart + additionLines  *)
(* - 1.                                                                    *)
(***************************************************************************)
C21_DerivedRange ==
    [][\A f \in SelectFiles : \A hunk \in fileHunks[f] :
           handleHunkComment(f, hunk) =>
               /\ state'.commentForm.lineStart = DerivedRange(hunk).start
               /\ state'.commentForm.lineEnd = DerivedRange(hunk).end]_vars

\* the form is open on lines 52 to 55: additionStart 50, two context
\* lines, then four added lines
C21_Witness ==
    /\ fileHunks["src/a.ts"] =
           {[additionStart |-> 50, additionLines |-> 6,
             hunkContent |-> <<[type |-> "context", lines |-> 2],
                               [type |-> "change", additions |-> 4,
                                deletions |-> 1]>>]}
    /\ state.commentForm =
           [filePath |-> "src/a.ts", lineStart |-> 52, lineEnd |-> 55,
            side |-> "additions"]

(***************************************************************************)
(* The repository picker: RepoPicker's reducer and its streamRepos, which  *)
(* reads the scan's response body.  The body is text; a unit of it is a    *)
(* line break or a piece of a JSON document.                               *)
(***************************************************************************)
Unit(kind) ==
    [kind |-> kind, type |-> "", path |-> <<>>, total |-> 0, message |-> ""]

Newline == Unit("\n")
OpenBrace == Unit("{")
CloseBrace == Unit("}")

\* the members of a record's JSON text
Members(rec) ==
    CASE rec.type = "repo" ->
             [Unit("members") EXCEPT !.type = "repo", !.path = rec.data.path]
      [] rec.type = "done" ->
             [Unit("members") EXCEPT !.type = "done", !.total = rec.total]
      [] OTHER ->
             [Unit("members") EXCEPT !.type = "error",
                                     !.message = rec.message]

JSONStringify(rec) == <<OpenBrace, Members(rec), CloseBrace>>

\* encoder.encode(JSON.stringify(rec) + '\n')
EncodeLine(rec) == JSONStringify(rec) \o <<Newline>>

SyntaxError == [type |-> "SyntaxError"]

\* JSON.parse(line): the record, or the exception it throws
JSONParse(line) ==
    IF /\ Len(line) = 3
       /\ line[1] = OpenBrace
       /\ line[2].kind = "members"
       /\ line[3] = CloseBrace
    THEN CASE line[2].type = "repo" -> RepoRecord(GitRepo(line[2].path))
           [] line[2].type = "done" -> DoneRecord(line[2].total)
           [] OTHER -> [type |-> "error", message |-> line[2].message]
    ELSE SyntaxError

\* text.split('\n')
RECURSIVE Split(_)
Split(text) ==
    IF \A k \in 1..Len(text) : text[k] # Newline
    THEN <<text>>
    ELSE LET k == CHOOSE n \in 1..Len(text) :
                      /\ text[n] = Newline
                      /\ \A m \in 1..(n - 1) : text[m] # Newline
         IN <<SubSeq(text, 1, k - 1)>>
                \o Split(SubSeq(text, k + 1, Len(text)))

repoPickerReducer(st, action) ==
    CASE action.type = "ADD_REPO" ->
             [st EXCEPT !.repos = SortByName(Append(st.repos, action.repo))]
      [] action.type = "SET_LOADING" -> [st EXCEPT !.loading = action.loading]
      [] action.type = "SET_ERROR" -> [st EXCEPT !.error = action.error]
      [] action.type = "SET_FILTER" -> [st EXCEPT !.filter = action.filter]
      [] OTHER -> st

\* the body of the for loop over a chunk's lines, on streamRepos' locals
\* and the reducer state
HandleLine(acc, line) ==
    IF line = <<>> THEN acc
    ELSE LET message == JSONParse(line)
         IN CASE message.type = "repo" ->
                     IF message.data.path \in acc.seenPaths THEN acc
                     ELSE [acc EXCEPT
                              !.seenPaths = @ \cup {message.data.path},
                              !.state = repoPickerReducer(@,
                                  [type |-> "ADD_REPO", repo |-> message.data])]
              [] message.type = "error" ->
                     [acc EXCEPT !.state = repoPickerReducer(@,
                         [type |-> "SET_ERROR",
                          error |-> IF message.message = ""
                                    THEN <<"Failed to scan repositories">>
                                    ELSE <<message.message>>])]
              [] message.type = "done" ->
                     [acc EXCEPT !.state = repoPickerReducer(@,
                         [type |-> "SET_LOADING", loading |-> FALSE])]
              [] OTHER -> acc

RECURSIVE HandleLines(_, _)
HandleLines(acc, lines) ==
    IF lines = <<>> THEN acc
    ELSE HandleLines(HandleLine(acc, Head(lines)), Tail(lines))

\* variant: a chunk's lines are parsed as they come, nothing is kept for
\* the next chunk
ProcessChunkNoCarry(acc, value) ==
    HandleLines([acc EXCEPT !.buffer = <<>>], Split(value))

\* one turn of the while loop on the chunk `value`
ProcessChunk(acc, value) ==
    LET lines == Split(acc.buffer \o value)
    IN HandleLines([acc EXCEPT !.buffer = lines[Len(lines)]],
                   SubSeq(lines, 1, Len(lines) - 1))

\* after the loop: the remaining buffer, then SET_LOADING false
EndOfStream(acc) ==
    LET rest == IF acc.buffer # <<>>
                      /\ JSONParse(acc.buffer).type = "done"
                THEN repoPickerReducer(acc.state,
                         [type |-> "SET_LOADING", loading |-> FALSE])
                ELSE acc.state
    IN [acc EXCEPT !.state = repoPickerReducer(rest,
           [type |-> "SET_LOADING", loading |-> FALSE])]

Locals == [state |-> pickerState, seenPaths |-> pickerSeenPaths,
           buffer |-> buffer]

\* the effect of RepoPicker runs streamRepos, which fetches /api/repos/scan
Mount ==
    /\ pickerPhase = "unmounted"
    /\ pickerPhase' = "reading"
    /\ UNCHANGED <<body, bodyEnded, received, buffer, pickerSeenPaths,
                   pickerState>>
    /\ UNCHANGED <<scanVars, viewVars, storeVars>>

\* reader.read() resolves with the next n units of the body
ReaderRead(n) ==
    /\ pickerPhase = "reading"
    /\ n \in 1..(Len(body) - received)
    /\ LET acc == ProcessChunk(Locals,
                      SubSeq(body, received + 1, received + n))
       IN /\ pickerState' = acc.state
          /\ pickerSeenPaths' = acc.seenPaths
          /\ buffer' = acc.buffer
    /\ received' = received + n
    /\ UNCHANGED <<body, bodyEnded, pickerPhase>>
    /\ UNCHANGED <<scanVars, viewVars, storeVars>>

\* reader.read() resolves with done
ReaderDone ==
    /\ pickerPhase = "reading"
    /\ bodyEnded
    /\ received = Len(body)
    /\ pickerState' = EndOfStream(Locals).state
    /\ pickerPhase' = "finished"
    /\ UNCHANGED <<body, bodyEnded, received, buffer, pickerSeenPaths>>
    /\ UNCHANGED <<scanVars, viewVars, storeVars>>

\* err.message of a fetch or a read that rejects
FetchError == "Failed to fetch"

\* variant: the catch block records the error and leaves loading alone
StreamFailsStillLoading ==
    /\ pickerPhase = "reading"
    /\ pickerState' =
           repoPickerReducer(pickerState,
               [type |-> "SET_ERROR", error |-> <<FetchError>>])
    /\ pickerPhase' = "failed"
    /\ UNCHANGED <<body, bodyEnded, received, buffer, pickerSeenPaths>>
    /\ UNCHANGED <<scanVars, viewVars, storeVars>>

\* fetch or reader.read() rejects: the catch block
StreamFails ==
    /\ pickerPhase = "reading"
    /\ pickerState' =
           repoPickerReducer(
               repoPickerReducer(pickerState,
                   [type |-> "SET_ERROR", error |-> <<FetchError>>]),
               [type |-> "SET_LOADING", loading |-> FALSE])
    /\ pickerPhase' = "failed"
    /\ UNCHANGED <<body, bodyEnded, received, buffer, pickerSeenPaths>>
    /\ UNCHANGED <<scanVars, viewVars, storeVars>>

\* the effect's cleanup: controller.abort(); the AbortError is swallowed
Unmount ==
    /\ pickerPhase = "reading"
    /\ pickerPhase' = "aborted"
    /\ UNCHANGED <<body, bodyEnded, received, buffer, pickerSeenPaths,
                   pickerState>>
    /\ UNCHANGED <<scanVars, viewVars, storeVars>>

\* variant: the catch block treats the AbortError as any other error
AbortCaughtReported ==
    /\ pickerPhase = "aborted"
    /\ pickerState' =
           repoPickerReducer(
               repoPickerReducer(pickerState,
                   [type |-> "SET_ERROR", error |-> <<"AbortError">>]),
               [type |-> "SET_LOADING", loading |-> FALSE])
    /\ pickerPhase' = "returned"
    /\ UNCHANGED <<body, bodyEnded, received, buffer, pickerSeenPaths>>
    /\ UNCHANGED <<scanVars, viewVars, storeVars>>

\* the pending fetch or reader.read() rejects with the AbortError: the
\* catch block returns without a dispatch
AbortCaught ==
    /\ pickerPhase = "aborted"
    /\ pickerPhase' = "returned"
    /\ UNCHANGED <<body, bodyEnded, received, buffer, pickerSeenPaths,
                   pickerState>>
    /\ UNCHANGED <<scanVars, viewVars, storeVars>>

ReaderStep == \E n \in 1..(Len(body) - received) : ReaderRead(n)

\* the lines a body is made of: two repo records, a done record, an error
\* record, a repo record cut short, an empty line
LineShapes ==
    {JSONStringify(RepoRecord(GitRepo(PathE))),
     JSONStringify(RepoRecord(GitRepo(PathB))),
     JSONStringify(DoneRecord(2)),
     JSONStringify(ErrorRecord),
     <<OpenBrace, Members(RepoRecord(GitRepo(PathC)))>>,
     <<>>}

\* the lines joined with '\n'
RECURSIVE JoinLines(_)
JoinLines(lines) ==
    IF lines = <<>> THEN <<>>
    ELSE IF Len(lines) = 1 THEN Head(lines)
    ELSE Head(lines) \o <<Newline>> \o JoinLines(Tail(lines))

\* bodies of up to MaxStreamLines lines, the last line terminated or not
Bodies ==
    {JoinLines(lines) : lines \in SeqsUpTo(LineShapes, MaxStreamLines)}
        \cup {JoinLines(lines) \o <<Newline>> :
                 lines \in SeqsUpTo(LineShapes, MaxStreamLines) \ {<<>>}}

\* the picker alone, in front of a response whose body is one of `bodies`
PickerStart(bodies) ==
    /\ repoScanRoots = <<>>
    /\ repoScanMaxDepth = 0
    /\ gitRepos = AlwaysGit
    /\ unreadable = {}
    /\ phase = "idle"
    /\ pending = <<>>
    /\ merged = <<>>
    /\ seenPaths = {}
    /\ repos = <<>>
    /\ out = <<>>
    /\ controller = "none"
    /\ opFailed = FALSE
    /\ runs = 0
    /\ prevRun = NoRun
    /\ suspended = IdleLocals
    /\ ViewIdle
    /\ body \in bodies
    /\ bodyEnded = TRUE
    /\ received = 0
    /\ buffer = <<>>
    /\ pickerSeenPaths = {}
    /\ pickerState = initialState
    /\ pickerPhase = "unmounted"
    /\ StoreIdle

PickerInit == PickerStart(Bodies)

PickerNext ==
    \/ Mount
    \/ \E n \in 1..(Len(body) - received) : ReaderRead(n)
    \/ ReaderDone
    \/ StreamFails
    \/ Unmount
    \/ AbortCaught

PickerSpec == PickerInit /\ [][PickerNext]_vars

\* bodies as loader() writes them: repo records and error records, each
\* with its line break
ServerBodies ==
    {JoinLines(lines) \o <<Newline>> :
        lines \in SeqsUpTo({JSONStringify(RepoRecord(GitRepo(PathE))),
                            JSONStringify(RepoRecord(GitRepo(PathB))),
                            JSONStringify(ErrorRecord)},
                           MaxStreamLines) \ {<<>>}}

PickerFairInit == PickerStart(ServerBodies)

\* a read of a body that has more to give, or has ended, resolves; a
\* failure of the connection and the unmount are the environment's
PickerFairSpec ==
    /\ PickerFairInit
    /\ [][PickerNext]_vars
    /\ WF_vars(ReaderStep)
    /\ WF_vars(ReaderDone)

\* the lines of a text that end with a line break
TerminatedLines(text) ==
    LET lines == Split(text) IN SubSeq(lines, 1, Len(lines) - 1)

\* the well-formed records among the terminated lines of the body, in order
WellFormedRecords ==
    LET lines == TerminatedLines(body)
        parsed == [k \in 1..Len(lines) |-> JSONParse(lines[k])]
    IN SelectSeq(parsed, LAMBDA m : m.type # "SyntaxError")

\* the data of the repo records among them, first occurrences only
RECURSIVE FirstOccurrences(_, _)
FirstOccurrences(records, seen) ==
    IF records = <<>> THEN <<>>
    ELSE IF Head(records).type = "repo"
              /\ Head(records).data.path \notin seen
         THEN <<Head(records).data>>
                  \o FirstOccurrences(Tail(records),
                                      seen \cup {Head(records).data.path})
         ELSE FirstOccurrences(Tail(records), seen)

ErrorsOf(records) == SelectSeq(records, LAMBDA m : m.type = "error")

\* what the picker shows after it was handed the whole body in one chunk
OneChunk ==
    EndOfStream(ProcessChunk(
        [state |-> initialState, seenPaths |-> {}, buffer |-> <<>>],
        body)).state

(***************************************************************************)
(* C22: however the body is split into chunks, the picker ends with the    *)
(* repository list, error and loading flag it ends with when the body      *)
(* comes in one chunk; these are the ones of the well-formed lines alone:  *)
(* a line that does not parse is dropped, the lines around it are not.     *)
(***************************************************************************)
C22_ChunkSplitInvariant ==
    pickerPhase = "finished" =>
        /\ pickerState = OneChunk
        /\ pickerState.repos =
               SortByName(FirstOccurrences(WellFormedRecords, {}))
        /\ pickerState.error =
               (IF ErrorsOf(WellFormedRecords) = <<>> THEN NoError
                ELSE LET errors == ErrorsOf(WellFormedRecords)
                     IN <<errors[Len(errors)].message>>)
        /\ pickerState.loading = FALSE

\* a repo record, a line cut short, a repo record: the picker finished
\* with both repositories, sorted
C22_Witness ==
    /\ pickerPhase = "finished"
    /\ body = EncodeLine(RepoRecord(GitRepo(PathE)))
                  \o <<OpenBrace, Members(RepoRecord(GitRepo(PathC))), Newline>>
                  \o EncodeLine(RepoRecord(GitRepo(PathB)))
    /\ pickerState.repos = <<GitRepo(PathB), GitRepo(PathE)>>

\* the error records among the lines the picker has been handed so far
ErrorsReceived ==
    LET lines == TerminatedLines(SubSeq(body, 1, received))
        parsed == [k \in 1..Len(lines) |-> JSONParse(lines[k])]
    IN ErrorsOf(parsed)

(***************************************************************************)
(* C23: once the picker was handed an error record its error is a message, *)
(* and once the stream failed its error is the failure's message and       *)
(* loading is false; no step removes a repository from its list; and       *)
(* whenever an error is recorded loading becomes false (unless the picker  *)
(* is unmounted first).                                                    *)
(***************************************************************************)
C23_ErrorShape ==
    /\ Len(pickerState.error) <= 1
    /\ (ErrorsReceived # <<>> /\ pickerPhase # "failed") =>
           pickerState.error =
               <<ErrorsReceived[Len(ErrorsReceived)].message>>
    /\ pickerPhase = "failed" =>
           /\ pickerState.error = <<FetchError>>
           /\ pickerState.loading = FALSE

C23_ErrorKeepsRepos ==
    /\ [](C23_ErrorShape)
    /\ [][\A k \in 1..Len(pickerState.repos) :
             \E j \in 1..Len(pickerState'.repos) :
                 pickerState'.repos[j] = pickerState.repos[k]]_vars
    /\ (pickerState.error # NoError)
           ~> (pickerState.loading = FALSE
                  \/ pickerPhase \in {"aborted", "returned"})

\* two repositories, then an error record, then the connection broke
C23_Witness ==
    /\ pickerPhase = "failed"
    /\ ErrorsReceived # <<>>
    /\ Len(pickerState.repos) = 2
    /\ pickerState.error = <<FetchError>>
    /\ pickerState.loading = FALSE

(***************************************************************************)
(* The picker in front of the scan: its fetch invokes loader(), the        *)
(* records the scan enqueues travel to it as the response body.            *)
(***************************************************************************)
\* the records of the response stream that have left for the picker
Transmitted == Len(SelectSeq(body, LAMBDA u : u = Newline))

\* fetch('/api/repos/scan') reaches the route: loader()
PipeLoader == pickerPhase = "reading" /\ LoaderOnce

\* the next enqueued chunk travels to the picker
Transmit ==
    /\ ~bodyEnded
    /\ Transmitted < Len(out)
    /\ body' = body \o EncodeLine(out[Transmitted + 1])
    /\ UNCHANGED <<bodyEnded, received, buffer, pickerSeenPaths, pickerState,
                   pickerPhase>>
    /\ UNCHANGED <<scanVars, viewVars, storeVars>>

\* controller.close() closes the response body behind the last chunk
TransmitEnd ==
    /\ ~bodyEnded
    /\ controller = "closed"
    /\ Transmitted = Len(out)
    /\ bodyEnded' = TRUE
    /\ UNCHANGED <<body, received, buffer, pickerSeenPaths, pickerState,
                   pickerPhase>>
    /\ UNCHANGED <<scanVars, viewVars, storeVars>>

\* reader.read() resolves with what has arrived
PipeRead == ReaderRead(Len(body) - received)

\* the aborted fetch cancels the response stream
PipeCancel == pickerPhase = "aborted" /\ Cancel

PipeNext ==
    \/ Mount
    \/ PipeLoader
    \/ \E i \in RootIds : ScanForReposStream(i)
    \/ \E i \in RootIds : TestEntry(i)
    \/ RunForEach
    \/ SignalDone
    \/ Fail
    \/ CatchAll
    \/ Close
    \/ Transmit
    \/ TransmitEnd
    \/ PipeRead
    \/ ReaderDone
    \/ StreamFails
    \/ Unmount
    \/ PipeCancel

PipeSpec == Init /\ [][PipeNext]_vars

SortedByName(list) ==
    \A k \in 1..(Len(list) - 1) :
        LocaleCompare(list[k].name, list[k + 1].name) <= 0

NoTwoWithSamePath(list) ==
    \A j, k \in 1..Len(list) : list[j].path = list[k].path => j = k

PathsIn(list) == {list[k].path : k \in 1..Len(list)}

\* this step enqueues a repo record
EmitsRepo ==
    /\ Len(out') = Len(out) + 1
    /\ out'[Len(out')].type = "repo"

(***************************************************************************)
(* C24: at every step that emits a repo record, whatever the interleaving  *)
(* of the roots' traversals, the accumulator is sorted by name, holds no   *)
(* path twice and holds exactly the repositories emitted so far, the one   *)
(* of this step included; the picker's list is sorted by name at all       *)
(* times.                                                                  *)
(***************************************************************************)
C24_AtomicEmission ==
    /\ [][EmitsRepo =>
             /\ SortedByName(repos')
             /\ NoTwoWithSamePath(repos')
             /\ PathsIn(repos') = RepoPathsOf(out')
             /\ Len(repos') = Cardinality(RepoIndexes')]_vars
    /\ [](SortedByName(pickerState.repos))

\* c was emitted before b; the accumulator and the picker's list hold b, c
C24_Witness ==
    /\ RepoOrderOf(out) = <<PathC, PathB>>
    /\ repos = <<GitRepo(PathB), GitRepo(PathC)>>
    /\ pickerState.repos = <<GitRepo(PathB), GitRepo(PathC)>>

(***************************************************************************)
(* Two scans at a time over one filesystem and one configuration.          *)
(***************************************************************************)
TwoScanInit ==
    /\ repoScanRoots \in {<<PathA>>, <<PathA, PathB>>}
    /\ repoScanMaxDepth \in 0..MaxDepthBound
    /\ \E g \in SUBSET GitCandidates : gitRepos = g \cup AlwaysGit
    /\ unreadable = {}
    /\ phase = "idle"
    /\ pending = <<>>
    /\ merged = <<>>
    /\ seenPaths = {}
    /\ repos = <<>>
    /\ out = <<>>
    /\ controller = "none"
    /\ opFailed = FALSE
    /\ runs = 0
    /\ prevRun = NoRun
    /\ suspended = IdleLocals
    /\ ViewIdle
    /\ PickerIdle
    /\ StoreIdle

TwoScanNext ==
    \/ Loader
    \/ \E i \in RootIds : ScanForReposStream(i)
    \/ \E i \in RootIds : TestEntry(i)
    \/ RunForEach
    \/ SignalDone
    \/ Close
    \/ Switch

TwoScanSpec == TwoScanInit /\ [][TwoScanNext]_vars

\* a record sequence that ends with done holds every reachable repository
\* once, and its total is their number
CompleteAndExact(records) ==
    (records # <<>> /\ records[Len(records)].type = "done") =>
        /\ RepoPathsOf(records) = Expected
        /\ Len(RepoOrderOf(records)) = Cardinality(Expected)
        /\ records[Len(records)].total = Cardinality(Expected)

(***************************************************************************)
(* C25: of two scans that run at the same time over the same filesystem,   *)
(* each that completes has emitted every reachable repository exactly once *)
(* and reports their number as its total: a path one scan accepted is      *)
(* still emitted by the other.                                             *)
(***************************************************************************)
C25_ScansIndependent ==
    /\ CompleteAndExact(out)
    /\ CompleteAndExact(suspended.out)

\* both scans are under way in different orders: each has accepted and
\* emitted c, one of them b before it
C25_Witness ==
    /\ phase = "running"
    /\ suspended.phase = "running"
    /\ RepoOrderOf(out) = <<PathB, PathC>>
    /\ suspended.seenPaths = {PathC}
    /\ RepoOrderOf(suspended.out) = <<PathC>>

\* the directories strictly between root r and the directory p below it
Between(r, p) == {Prefix(p, n) : n \in (Len(r) + 1)..(Len(p) - 1)}

\* root i's traversal yields the entry it tests in this step
Yields(i) ==
    /\ TestEntry(i)
    /\ IsGitRepo(Head(pending[i]).path)

(***************************************************************************)
(* C26: an entry the git test confirms is yielded and dropped from the     *)
(* root's pending work, nothing of it is listed; so no repository a root's *)
(* traversal yields lies below another repository strictly below that      *)
(* root, and the traversal holds no work inside one.                       *)
(***************************************************************************)
C26_NeverDescended ==
    /\ [][\A i \in RootIds :
             Yields(i) =>
                 /\ merged' = Append(merged, GitRepo(Head(pending[i]).path))
                 /\ pending'[i] = Tail(pending[i])
                 /\ Between(repoScanRoots[i], Head(pending[i]).path)
                        \cap gitRepos = {}]_vars
    /\ [](\A i \in DOMAIN pending : \A k \in 1..Len(pending[i]) :
             /\ Between(repoScanRoots[i], pending[i][k].path)
                    \cap gitRepos = {}
             /\ (pending[i][k].kind = "call"
                     /\ pending[i][k].path # repoScanRoots[i])
                    => pending[i][k].path \notin gitRepos)

\* b and its subdirectory c are repositories within the depth limit of the
\* one root a: the completed scan emitted b, not c
C26_Witness ==
    /\ repoScanRoots = <<PathA>>
    /\ repoScanMaxDepth = 1
    /\ {PathB, PathC} \subseteq gitRepos
    /\ DoneEmitted
    /\ PathB \in Emitted
    /\ PathC \notin Emitted

(***************************************************************************)
(* C27: the git test is applied to the scan root as to every directory the *)
(* traversal reaches: a completed scan has emitted every root that is a    *)
(* repository, and no traversal holds an entry of such a root.             *)
(***************************************************************************)
C27_Original ==
    /\ DoneEmitted =>
           \A i \in RootIds :
               repoScanRoots[i] \in gitRepos => repoScanRoots[i] \in Emitted
    /\ \A i \in DOMAIN pending : \A k \in 1..Len(pending[i]) :
           pending[i][k].kind = "entry" => repoScanRoots[i] \notin gitRepos

\* no component of p below r is an ignored name or a dot name
CleanBelow(r, p) == \A n \in (Len(r) + 1)..Len(p) : ~IgnoredName(p[n])

(***************************************************************************)
(* C28: every emitted repository lies below a scan root with no ignored    *)
(* name and no dot name among its components below that root, and no       *)
(* traversal holds a directory to test or to list that has one, although   *)
(* node_modules and .h are directories the git test would confirm.         *)
(***************************************************************************)
C28_IgnoredNeverReached ==
    /\ \A p \in Emitted :
           \E i \in RootIds :
               IsBelow(repoScanRoots[i], p) /\ CleanBelow(repoScanRoots[i], p)
    /\ \A i \in DOMAIN pending : \A k \in 1..Len(pending[i]) :
           CleanBelow(repoScanRoots[i], pending[i][k].path)

\* the scan of root a completed: it passed node_modules and .h, both
\* repositories, and emitted e, which the directory lists after them
C28_Witness ==
    /\ repoScanRoots = <<PathA>>
    /\ DoneEmitted
    /\ {PathNodeModules, PathDotH} \subseteq gitRepos
    /\ PathE \in Emitted
    /\ PathNodeModules \notin Emitted
    /\ PathDotH \notin Emitted

\* additions + deletions of a file as the files prop gives them, 0 for a
\* file the prop does not list
AdditionsPlusDeletions(filePath) ==
    IF filePath \in DOMAIN fileMetadataMap
    THEN fileMetadataMap[filePath].additions
             + fileMetadataMap[filePath].deletions
    ELSE 0

AutoCollapsed(filePath) ==
    \/ MatchesAutoCollapsePattern(filePath)
    \/ AdditionsPlusDeletions(filePath) > largeFileThreshold

\* the files before position k of the diff that are not auto-collapsed
EligibleBefore(k) == {j \in 1..(k - 1) : ~AutoCollapsed(allFiles[j])}

(***************************************************************************)
(* C29: the step that initializes a diff expands no file whose path        *)
(* matches an auto-collapse pattern or whose additions + deletions exceed  *)
(* the largeFileThreshold prop, and expands every other file that fewer    *)
(* than the quota of such other files precede: a file at the threshold and *)
(* a file without metadata (0 changes) are among the others.               *)
(***************************************************************************)
C29_AutoCollapse ==
    [][(~state.isInitialized /\ state'.isInitialized) =>
           \A k \in DOMAIN allFiles :
               /\ AutoCollapsed(allFiles[k]) =>
                      allFiles[k] \notin state'.expandedFiles
               /\ (~AutoCollapsed(allFiles[k])
                       /\ Cardinality(EligibleBefore(k)) < DEFAULT_EXPANDED_COUNT)
                      => allFiles[k] \in state'.expandedFiles]_vars

\* the threshold is overridden to the total of src/a.ts; src/big.ts is
\* above it and the lock file matches a pattern: only src/a.ts is expanded
C29_Witness ==
    /\ state.isInitialized
    /\ rawDiff = "diff1"
    /\ largeFileThreshold # DEFAULT_LARGE_FILE_THRESHOLD
    /\ AdditionsPlusDeletions("src/a.ts") = largeFileThreshold
    /\ state.expandedFiles = {"src/a.ts"}

(***************************************************************************)
(* The viewer under changes of its props: the parent passes other files,   *)
(* another threshold, other comments; the auto-expand effect, whose        *)
(* dependencies they are, runs again after the render.                     *)
(***************************************************************************)
\* the parent passes another files prop
SetFiles(files) ==
    /\ ~EffectPending
    /\ files # fileMetadataMap
    /\ fileMetadataMap' = files
    /\ UNCHANGED <<rawDiff, DiffComponents, state, initDeps>>
    /\ UNCHANGED <<largeFileThreshold, existingComments, fileHunks, refVars>>
    /\ scrollToFileRef' = state'.expandedFiles
    /\ UNCHANGED <<scanVars, pickerVars, storeVars>>

\* the parent passes another largeFileThreshold
SetLargeFileThreshold(threshold) ==
    /\ ~EffectPending
    /\ threshold # largeFileThreshold
    /\ largeFileThreshold' = threshold
    /\ UNCHANGED <<rawDiff, DiffComponents, state, initDeps>>
    /\ UNCHANGED <<fileMetadataMap, existingComments, fileHunks, refVars>>
    /\ scrollToFileRef' = state'.expandedFiles
    /\ UNCHANGED <<scanVars, pickerVars, storeVars>>

\* scrollToFile as the parent calls it through scrollToFileRef: a file that
\* was collapsed in the render that created the function is toggled (the
\* scroll is not state); the view has not rendered again when it returns
scrollToFile(filePath) ==
    /\ ~EffectPending
    /\ filePath \notin scrollToFileRef
    /\ state' = diffViewerReducer(state,
                    [type |-> "TOGGLE_FILE_EXPANDED", payload |-> filePath])
    /\ UNCHANGED <<rawDiff, DiffComponents, initDeps>>
    /\ UNCHANGED <<propVars, refVars>>
    /\ UNCHANGED scrollToFileRef
    /\ UNCHANGED <<scanVars, pickerVars, storeVars>>

\* the render after scrollToFile's dispatch: useCallback makes a new
\* scrollToFile (expandedFiles changed) and the effect puts it into the ref
ExposeScrollToFile ==
    /\ ~EffectPending
    /\ scrollToFileRef # state.expandedFiles
    /\ scrollToFileRef' = state.expandedFiles
    /\ UNCHANGED <<rawDiff, DiffComponents, state, initDeps>>
    /\ UNCHANGED <<propVars, refVars>>
    /\ UNCHANGED <<scanVars, pickerVars, storeVars>>

\* a files prop in which src/big.ts has become a small file
SmallFilesProp ==
    [FilesProp EXCEPT !["src/big.ts"] = [additions |-> 1, deletions |-> 1]]

PolicyNext ==
    \/ LoadDiffComponents
    \/ InitEffect
    \/ \E diff \in RawDiffs : SetRawDiff(diff)
    \/ \E f \in ViewFiles : toggleFileExpanded(f)
    \/ collapseAll
    \/ \E f \in ViewFiles : scrollToFile(f)
    \/ ExposeScrollToFile
    \/ \E files \in {FilesProp, SmallFilesProp} : SetFiles(files)
    \/ \E threshold \in Thresholds : SetLargeFileThreshold(threshold)
    \/ \E comments \in ViewComments : SetExistingComments(comments)

PolicySpec == ViewInit /\ [][PolicyNext]_vars

(***************************************************************************)
(* C30: a step from an initialized state to an initialized state, one      *)
(* without a reset, changes expandedFiles only if it is a step of          *)
(* toggleFileExpanded, collapseAll or scrollToFile: the auto-expand effect *)
(* that runs again after a change of the files, the threshold or the       *)
(* comments leaves the state as it is.                                     *)
(***************************************************************************)
C30_PolicyOnce ==
    [][(/\ state.isInitialized
        /\ state'.isInitialized
        /\ state'.expandedFiles # state.expandedFiles)
          => \/ \E f \in ViewFiles : toggleFileExpanded(f)
             \/ collapseAll
             \/ \E f \in ViewFiles : scrollToFile(f)]_vars

\* initialized under the first files prop and threshold; the files prop now
\* makes src/big.ts small and the threshold is another, the effect has run
\* again, and src/big.ts is still collapsed
C30_Witness ==
    /\ state.isInitialized
    /\ ~EffectPending
    /\ rawDiff = "diff1"
    /\ fileMetadataMap = SmallFilesProp
    /\ largeFileThreshold # DEFAULT_LARGE_FILE_THRESHOLD
    /\ existingComments # <<>>
    /\ state.expandedFiles = {"src/a.ts"}

(***************************************************************************)
(* Hydration completions: FileDiffWrapper's onLoaded of any files, in any  *)
(* order and with repetitions, dispatched one after the other.             *)
(***************************************************************************)
\* dispatch MARK_FILE_LOADED for the files of a sequence, in its order
RECURSIVE DispatchMarkLoaded(_, _)
DispatchMarkLoaded(st, filePaths) ==
    IF filePaths = <<>>
    THEN st
    ELSE DispatchMarkLoaded(
             diffViewerReducer(st, [type |-> "MARK_FILE_LOADED",
                                    payload |-> Head(filePaths)]),
             Tail(filePaths))

\* the orders, with repetitions, of up to three completions
CompletionOrders == SeqsUpTo(ViewFiles, 3)

(***************************************************************************)
(* C31: a markFileLoaded event changes nothing but loadedFiles, to which   *)
(* it adds its own file (nothing if the file is there already); hence from *)
(* every state every order of completions, repetitions included, ends in   *)
(* the state whose loadedFiles has the files of the order added, whatever  *)
(* the order.                                                              *)
(***************************************************************************)
C31_MarkLoadedCommutes ==
    /\ [][\A f \in ViewFiles :
             markFileLoaded(f) =>
                 /\ state' = [state EXCEPT !.loadedFiles = @ \cup {f}]
                 /\ diffViewerReducer(state',
                        [type |-> "MARK_FILE_LOADED", payload |-> f]) = state'
                 /\ UNCHANGED <<rawDiff, DiffComponents, initDeps,
                                propVars, refVars>>]_vars
    /\ [](\A order \in CompletionOrders :
             DispatchMarkLoaded(state, order) =
                 [state EXCEPT !.loadedFiles =
                     @ \cup FilePaths(order)])

\* three files are loaded, one of them collapsed again since
C31_Witness ==
    /\ Cardinality(state.loadedFiles) = 3
    /\ Cardinality(state.expandedFiles) = 2
    /\ state.expandedFiles \subseteq state.loadedFiles

(***************************************************************************)
(* The comment index over comments whose ranges have lines in between: the *)
(* lists are grown one comment at a time, the lines run up to              *)
(* MaxRangeLine.                                                           *)
(***************************************************************************)
MaxRangeLine == 3

RangeShapes ==
    [file_path : CommentFiles,
     line_start : {NullLine} \cup 1..MaxRangeLine,
     line_end : {NullLine} \cup 1..MaxRangeLine]

RangeNext ==
    \E shape \in RangeShapes :
        /\ Len(existingComments) < MaxComments
        /\ SetExistingComments(WithIds(Append(existingComments, shape)))

RangeSpec == CommentInit /\ [][RangeNext]_vars

\* the number of times the index entry of the file at the line lists the
\* comment; 0 when there is no such entry
TimesListed(comment, line) ==
    IF IndexedAt(comment.file_path, line)
    THEN Cardinality({k \in DOMAIN commentMap[comment.file_path][line] :
                         commentMap[comment.file_path][line][k] = comment})
    ELSE 0

(***************************************************************************)
(* C32: a comment of the list with line_start = s and line_end = e, both   *)
(* lines and e other than s, is listed by the index entries of its file at *)
(* s and at e and by the entry of no line strictly between s and e; and no *)
(* entry of the index lists a comment twice.                               *)
(***************************************************************************)
C32_EndpointsOnly ==
    /\ \A k \in DOMAIN existingComments :
           LET c == existingComments[k]
               s == c.line_start
               e == c.line_end
           IN  (s # NullLine /\ e # NullLine /\ e # s) =>
                   /\ TimesListed(c, s) = 1
                   /\ TimesListed(c, e) = 1
                   /\ \A L \in 1..MaxRangeLine :
                          (MathMin(s, e) < L /\ L < MathMax(s, e)) =>
                              TimesListed(c, L) = 0
    /\ \A f \in DOMAIN commentMap : \A L \in DOMAIN commentMap[f] :
           \A i, j \in DOMAIN commentMap[f][L] :
               commentMap[f][L][i] = commentMap[f][L][j] => i = j

\* a comment on lines 1 to 3 of a file and a comment on its line 2: the
\* index has an entry at line 2, which lists the second comment only
C32_Witness ==
    \E k, m \in DOMAIN existingComments :
        /\ existingComments[k].line_start = 1
        /\ existingComments[k].line_end = 3
        /\ existingComments[m].file_path = existingComments[k].file_path
        /\ existingComments[m].line_start = 2
        /\ TimesListed(existingComments[m], 2) = 1
        /\ Len(commentMap[existingComments[k].file_path][2]) = 1

(***************************************************************************)
(* The authoring target under every action that opens the form: the        *)
(* viewer shows diff2 with both files expanded and loaded; src/a.ts has    *)
(* one hunk, as git diff writes it with its three lines of context or for  *)
(* a deleted file.                                                         *)
(***************************************************************************)
\* "@@ -1,2 +0,0 @@": the hunk of a deleted file, removed lines only
DeletedFileHunk ==
    [additionStart |-> 0, additionLines |-> 0,
     hunkContent |-> <<[type |-> "change", additions |-> 0,
                        deletions |-> 1]>>]

\* "@@ -1,3 +1,2 @@": a line removed between two lines of context
RemovedLineHunk ==
    [additionStart |-> 1, additionLines |-> 2,
     hunkContent |-> <<[type |-> "context", lines |-> 1],
                       [type |-> "change", additions |-> 0, deletions |-> 1],
                       [type |-> "context", lines |-> 1]>>]

TargetHunks == Hunks("src/a.ts") \cup {RemovedLineHunk, DeletedFileHunk}

TargetInit ==
    /\ repoScanRoots = <<>>
    /\ repoScanMaxDepth = 0
    /\ gitRepos = {}
    /\ unreadable = {}
    /\ phase = "idle"
    /\ pending = <<>>
    /\ merged = <<>>
    /\ seenPaths = {}
    /\ repos = <<>>
    /\ out = <<>>
    /\ controller = "none"
    /\ opFailed = FALSE
    /\ runs = 0
    /\ prevRun = NoRun
    /\ suspended = IdleLocals
    /\ PickerIdle
    /\ StoreIdle
    /\ rawDiff = "diff2"
    /\ DiffComponents = TRUE
    /\ state = [initialDiffViewerState EXCEPT
                    !.expandedFiles = {"src/a.ts", "src/b.ts"},
                    !.isInitialized = TRUE,
                    !.loadedFiles = {"src/a.ts", "src/b.ts"}]
    /\ fileMetadataMap = FilesProp
    /\ largeFileThreshold = DEFAULT_LARGE_FILE_THRESHOLD
    /\ initDeps = [allFiles |-> <<rawDiff, TRUE>>, isInitialized |-> TRUE,
                   fileMetadataMap |-> fileMetadataMap,
                   largeFileThreshold |-> largeFileThreshold]
    /\ existingComments = <<>>
    /\ \E hunk \in TargetHunks :
           fileHunks = [ParsedHunks EXCEPT !["src/a.ts"] = {hunk}]
    /\ justSelectedMultiLineRef = FALSE
    /\ timers = 0
    /\ scrollToFileRef = state.expandedFiles

TargetNext ==
    \/ \E f \in SelectFiles, k \in DOMAIN HoveredLines :
           handleAddComment(f, HoveredLines[k])
    \/ \E f \in SelectFiles, k \in DOMAIN SelectedLineRanges :
           handleLineSelectionEnd(f, SelectedLineRanges[k])
    \/ ResetJustSelected
    \/ \E f \in SelectFiles : handleFileComment(f)
    \/ \E f \in SelectFiles : \E hunk \in fileHunks[f] :
           handleHunkComment(f, hunk)
    \/ handleCloseComment

TargetSpec == TargetInit /\ [][TargetNext]_vars

\* the fields of an authoring target that are set
Fields(target) == DOMAIN target \ {"side"}

\* the shapes of an authoring target: file, line, range or hunk
WellFormedTarget(target) ==
    /\ target.filePath \in ViewFiles
    /\ target.side \in {"additions", "deletions"}
    /\ \/ /\ Fields(target) = {"filePath", "isFileComment"}
          /\ target.isFileComment
       \/ Fields(target) = {"filePath", "lineStart"}
       \/ /\ Fields(target) = {"filePath", "lineStart", "lineEnd"}
          /\ target.lineStart <= target.lineEnd

(***************************************************************************)
(* C33 as stated: the authoring target, when there is one, has one of the  *)
(* shapes: a file target without a line, a line target, or a range or hunk *)
(* target with a file and lineStart <= lineEnd.                            *)
(***************************************************************************)
C33_Original ==
    state.commentForm # Null => WellFormedTarget(state.commentForm)

\* C33, the rest: every action that opens the form replaces the target by
\* its own; a line selection gives the minimum and the maximum of its lines
\* and the side of its start, a hunk menu the additions side
C33_OpenReplaces ==
    [][/\ \A f \in SelectFiles, k \in DOMAIN SelectedLineRanges :
              handleLineSelectionEnd(f, SelectedLineRanges[k]) =>
                  LET range == SelectedLineRanges[k] IN
                  /\ Fields(state'.commentForm)
                         = {"filePath", "lineStart", "lineEnd"}
                  /\ state'.commentForm.filePath = f
                  /\ state'.commentForm.lineStart \in {range.start, range.end}
                  /\ state'.commentForm.lineEnd \in {range.start, range.end}
                  /\ state'.commentForm.lineStart <= state'.commentForm.lineEnd
                  /\ "side" \in DOMAIN range =>
                         state'.commentForm.side = range.side
       /\ \A f \in SelectFiles : \A hunk \in fileHunks[f] :
              handleHunkComment(f, hunk) =>
                  /\ Fields(state'.commentForm)
                         = {"filePath", "lineStart", "lineEnd"}
                  /\ state'.commentForm.filePath = f
                  /\ state'.commentForm.side = "additions"
       /\ \A f \in SelectFiles :
              handleFileComment(f) =>
                  /\ Fields(state'.commentForm) = {"filePath", "isFileComment"}
                  /\ state'.commentForm.filePath = f
       /\ \A f \in SelectFiles, k \in DOMAIN HoveredLines :
              handleAddComment(f, HoveredLines[k]) =>
                  /\ Fields(state'.commentForm) = {"filePath", "lineStart"}
                  /\ state'.commentForm.filePath = f
                  /\ state'.commentForm.lineStart = HoveredLines[k].lineNumber
      ]_vars

(***************************************************************************)
(* C37 as stated: the range that a hunk menu derives from its hunk has     *)
(* start <= end, also when the hunk adds no line and the range is the      *)
(* nominal one.                                                            *)
(***************************************************************************)
C37_Original ==
    [][\A f \in SelectFiles : \A hunk \in fileHunks[f] :
           handleHunkComment(f, hunk) =>
               getActualChangedLineRange(hunk).start
                   <= getActualChangedLineRange(hunk).end]_vars

(***************************************************************************)
(* C35 as stated: a call of scrollToFile for a path leaves the path in     *)
(* expandedFiles, also when it follows another call for the path that the  *)
(* view has not rendered yet.                                              *)
(***************************************************************************)
C35_Original ==
    [][\A f \in ViewFiles : scrollToFile(f) => f \in state'.expandedFiles]_vars

Contents == {InitialContent, "second", " "}

\* editContent.trim()
Trim(content) == IF content = " " THEN "" ELSE content

\* the Edit button
StartEdit ==
    /\ ~card.isEditing
    /\ card' = [card EXCEPT !.isEditing = TRUE]
    /\ UNCHANGED <<requests, storedComment, changes>>
    /\ UNCHANGED <<scanVars, viewVars, pickerVars, sessionVars>>

\* the textarea's onChange
setEditContent(content) ==
    /\ card.isEditing
    /\ content # card.editContent
    /\ card' = [card EXCEPT !.editContent = content]
    /\ UNCHANGED <<requests, storedComment, changes>>
    /\ UNCHANGED <<scanVars, viewVars, pickerVars, sessionVars>>

\* the Cancel button, disabled while saving
CancelEdit ==
    /\ card.isEditing
    /\ ~card.isSaving
    /\ card' = [card EXCEPT !.isEditing = FALSE,
                            !.editContent = InitialContent]
    /\ UNCHANGED <<requests, storedComment, changes>>
    /\ UNCHANGED <<scanVars, viewVars, pickerVars, sessionVars>>

\* handleSave up to its await: the Save button is disabled while saving and
\* for blank content
handleSave ==
    /\ card.isEditing
    /\ ~card.isSaving
    /\ Trim(card.editContent) # ""
    /\ changes + Len(requests) < MaxMutations
    /\ card' = [card EXCEPT !.isSaving = TRUE]
    /\ requests' = Append(requests, [intent |-> "update",
                                     content |-> card.editContent])
    /\ UNCHANGED <<storedComment, changes>>
    /\ UNCHANGED <<scanVars, viewVars, pickerVars, sessionVars>>

\* handleDelete up to its await: the Delete button of the card that is not
\* being edited
handleDelete ==
    /\ ~card.isEditing
    /\ changes + Len(requests) < MaxMutations
    /\ requests' = Append(requests, [intent |-> "delete", content |-> ""])
    /\ UNCHANGED <<card, storedComment, changes>>
    /\ UNCHANGED <<scanVars, viewVars, pickerVars, sessionVars>>

\* the requests without the k-th
Without(k) == [i \in 1..(Len(requests) - 1) |->
                  IF i < k THEN requests[i] ELSE requests[i + 1]]

\* the store after it has carried out a request
Applied(request) ==
    IF request.intent = "update" THEN <<request.content>> ELSE <<>>

\* the rest of handleSave or handleDelete after `await fetch(...)` has
\* resolved: the response is not looked at
AfterResolved(request) ==
    /\ card' = IF request.intent = "update"
               THEN [card EXCEPT !.isEditing = FALSE, !.isSaving = FALSE]
               ELSE card
    /\ changes' = changes + 1

\* the rest after `await fetch(...)` has rejected: handleSave has a finally
\* and no catch, handleDelete logs the error
AfterRejected(request) ==
    /\ card' = IF request.intent = "update"
               THEN [card EXCEPT !.isSaving = FALSE]
               ELSE card
    /\ changes' = changes

\* the store carries out the k-th request and the route answers 200
StoreAccepts(k) ==
    /\ k \in DOMAIN requests
    /\ storedComment # <<>>
    /\ storedComment' = Applied(requests[k])
    /\ requests' = Without(k)
    /\ AfterResolved(requests[k])
    /\ UNCHANGED <<scanVars, viewVars, pickerVars, sessionVars>>

\* the store fails or rejects the k-th request (the comment is gone, the
\* database fails) and the route answers with an error status: fetch
\* resolves all the same
StoreRejects(k) ==
    /\ k \in DOMAIN requests
    /\ storedComment' = storedComment
    /\ requests' = Without(k)
    /\ AfterResolved(requests[k])
    /\ UNCHANGED <<scanVars, viewVars, pickerVars, sessionVars>>

\* the k-th request does not get an answer (the server is down): fetch
\* rejects
FetchRejects(k) ==
    /\ k \in DOMAIN requests
    /\ storedComment' = storedComment
    /\ requests' = Without(k)
    /\ AfterRejected(requests[k])
    /\ UNCHANGED <<scanVars, viewVars, pickerVars, sessionVars>>

CardNext ==
    \/ StartEdit
    \/ \E content \in Contents : setEditContent(content)
    \/ CancelEdit
    \/ handleSave
    \/ handleDelete
    \/ \E k \in 1..MaxMutations : StoreAccepts(k)
    \/ \E k \in 1..MaxMutations : StoreRejects(k)
    \/ \E k \in 1..MaxMutations : FetchRejects(k)

CardSpec == ViewInit /\ [][CardNext]_vars

(***************************************************************************)
(* C34 as stated: an update or delete that the store fails or rejects, or  *)
(* that does not reach the store, changes no view state: the edit surface  *)
(* stays as it is and no comment change is reported; after an update or    *)
(* delete that the store has carried out the change is reported once, for  *)
(* the list to be fetched again, and the comments the viewer holds are not *)
(* patched.                                                                *)
(***************************************************************************)
C34_Original ==
    [][\A k \in 1..MaxMutations :
           /\ (StoreRejects(k) \/ FetchRejects(k)) =>
                  /\ card'.isEditing = card.isEditing
                  /\ changes' = changes
                  /\ existingComments' = existingComments
           /\ StoreAccepts(k) =>
                  /\ changes' = changes + 1
                  /\ existingComments' = existingComments]_vars

(***************************************************************************)
(* The single-root scanner (routes/api.repos.scan.ts) next to the          *)
(* multi-root one, over one filesystem, one maxDepth and one git           *)
(* predicate, the roots being the one root.  The single-root loader() has  *)
(* its locals in `suspended`; it has no merge and no seenPaths, so a repo  *)
(* goes from its traversal straight to the runForEach body.                *)
(***************************************************************************)
\* config.repoScanRoot
repoScanRoot == repoScanRoots[1]

SingleRootInit ==
    /\ \E root \in RootCandidates : repoScanRoots = <<root>>
    /\ repoScanMaxDepth \in 0..MaxDepthBound
    /\ \E g \in SUBSET GitCandidates : gitRepos = g \cup AlwaysGit
    /\ unreadable \in {u \in SUBSET UnreadableCandidates :
                          Cardinality(u) <= MaxUnreadable}
    /\ phase = "idle"
    /\ pending = <<>>
    /\ merged = <<>>
    /\ seenPaths = {}
    /\ repos = <<>>
    /\ out = <<>>
    /\ controller = "none"
    /\ opFailed = FALSE
    /\ runs = 0
    /\ prevRun = NoRun
    /\ suspended = IdleLocals
    /\ ViewIdle
    /\ PickerIdle
    /\ StoreIdle

\* what a step of the single-root loader() leaves alone
SingleRootFrame ==
    /\ UNCHANGED <<repoScanRoots, repoScanMaxDepth, gitRepos, unreadable, phase,
                   pending, merged, seenPaths, repos, out, controller,
                   opFailed, runs, prevRun>>
    /\ UNCHANGED <<viewVars, pickerVars, storeVars>>

\* loader() of the single-root scanner
SingleRootLoader ==
    /\ suspended.phase = "idle"
    /\ suspended' = [suspended EXCEPT
           !.phase = "running",
           !.pending = <<CallItem(repoScanRoot, 0)>>,
           !.controller = "readable"]
    /\ SingleRootFrame

\* scanForReposStream(git, dir, maxDepth, depth) of the single-root scanner
SingleRootScanForReposStream ==
    /\ suspended.phase = "running"
    /\ suspended.pending # <<>>
    /\ Head(suspended.pending).kind = "call"
    /\ LET item == Head(suspended.pending)
       IN suspended' = [suspended EXCEPT
              !.pending = ScanItems(item.path, item.depth) \o Tail(@)]
    /\ SingleRootFrame

\* the runForEach body of the single-root scanner: push, sort, enqueue
SingleRootRunForEach(locals, repo) ==
    IF locals.controller = "readable"
    THEN [locals EXCEPT !.repos = SortByName(Append(@, repo)),
                        !.out = Append(@, RepoRecord(repo))]
    ELSE [locals EXCEPT !.repos = SortByName(Append(@, repo)),
                        !.phase = "died"]

\* the mapEffect / flatMap stage of the single-root scanner on the next
\* entry: a repository goes to the runForEach body, anything else is
\* recursed into
SingleRootTestEntry ==
    /\ suspended.phase = "running"
    /\ suspended.pending # <<>>
    /\ Head(suspended.pending).kind = "entry"
    /\ LET item == Head(suspended.pending)
       IN IF IsGitRepo(item.path)
          THEN suspended' = SingleRootRunForEach(
                   [suspended EXCEPT !.pending = Tail(@)], GitRepo(item.path))
          ELSE suspended' = [suspended EXCEPT
                   !.pending = <<CallItem(item.path, item.depth + 1)>>
                               \o Tail(@)]
    /\ SingleRootFrame

\* the completion record of the single-root scanner
SingleRootSignalDone ==
    /\ suspended.phase = "running"
    /\ suspended.pending = <<>>
    /\ suspended' = [suspended EXCEPT
           !.out = Append(@, DoneRecord(Len(suspended.repos))),
           !.phase = "settled"]
    /\ SingleRootFrame

\* finally { controller.close() } of the single-root scanner
SingleRootClose ==
    /\ suspended.phase \in {"settled", "died"}
    /\ suspended' = [suspended EXCEPT !.phase = "closed",
                                      !.controller = "closed"]
    /\ SingleRootFrame

SingleRootNext ==
    \/ LoaderOnce
    \/ \E i \in RootIds : ScanForReposStream(i)
    \/ \E i \in RootIds : TestEntry(i)
    \/ RunForEach
    \/ SignalDone
    \/ Close
    \/ SingleRootLoader
    \/ SingleRootScanForReposStream
    \/ SingleRootTestEntry
    \/ SingleRootSignalDone
    \/ SingleRootClose

SingleRootSpec == SingleRootInit /\ [][SingleRootNext]_vars

\* s is an initial part of t
IsPrefix(s, t) == Len(s) <= Len(t) /\ SubSeq(t, 1, Len(s)) = s

(***************************************************************************)
(* C38: for one root, over the same filesystem, maxDepth and git           *)
(* predicate, the multi-root scanner emits the records the single-root     *)
(* scanner emits: at any time the records of one are an initial part of    *)
(* the other's, and when both have closed their streams the two record     *)
(* sequences, done total included, are equal.                              *)
(***************************************************************************)
C38_SameAsSingleRoot ==
    /\ IsPrefix(out, suspended.out) \/ IsPrefix(suspended.out, out)
    /\ (phase = "closed" /\ suspended.phase = "closed") =>
           /\ out = suspended.out
           /\ out # <<>>
           /\ out[Len(out)].type = "done"

\* both scanners have closed after two repositories and done with total 2
C38_Witness ==
    /\ phase = "closed"
    /\ suspended.phase = "closed"
    /\ Len(suspended.out) = 3
    /\ suspended.out[3] = DoneRecord(2)
    /\ out[3] = DoneRecord(2)

(***************************************************************************)
(* C39: once the picker's stream is aborted, the picker's state stays as   *)
(* the abort found it: the abort itself and every step after it add no     *)
(* repository, set no error and leave the loading flag alone.              *)
(***************************************************************************)
C39_NothingAfterAbort ==
    [][pickerPhase' \in {"aborted", "returned"} =>
           /\ pickerState'.repos = pickerState.repos
           /\ pickerState'.error = pickerState.error
           /\ pickerState'.loading = pickerState.loading]_vars

\* the stream was aborted after a first repository, with more of the body
\* to come, and the catch block has returned: the picker is still loading
C39_Witness ==
    /\ pickerPhase = "returned"
    /\ Len(pickerState.repos) = 1
    /\ pickerState.loading
    /\ pickerState.error = NoError
    /\ received < Len(body)

(***************************************************************************)
(* getOrCreateSession of the repo service, called up to MaxCalls at a      *)
(* time in the one server process.  A call waits for git's current branch  *)
(* (the one asynchronous step); the SELECT, the INSERT and the SELECT by   *)
(* id that follow are synchronous better-sqlite3 calls run by one fiber    *)
(* without a yield, so they are one step.                                  *)
(***************************************************************************)
RepoIds == {"r1", "r2"}
Branches == {"main", "dev"}

\* generateId(): an id no row has yet
generateId == Cardinality(sessions) + 1

\* SELECT * FROM review_sessions WHERE repo_id = ? AND branch = ?
SessionsOf(repoId, branch) ==
    {s \in sessions : s.repo_id = repoId /\ s.branch = branch}

\* getOrCreateSession(repoId, path) up to `yield* git.getCurrentBranch(path)`
getOrCreateSession(c, repoId) ==
    /\ calls[c].phase = "idle"
    /\ calls' = [calls EXCEPT ![c] = [phase |-> "branch", repoId |-> repoId,
                                      branch |-> "", result |-> <<>>]]
    /\ UNCHANGED <<sessions, cardVars>>
    /\ UNCHANGED <<scanVars, viewVars, pickerVars>>

\* git.getCurrentBranch fails with a GitError, and so does the call
getCurrentBranchFails(c) ==
    /\ calls[c].phase = "branch"
    /\ calls' = [calls EXCEPT ![c].phase = "failed"]
    /\ UNCHANGED <<sessions, cardVars>>
    /\ UNCHANGED <<scanVars, viewVars, pickerVars>>

\* variant: the session is inserted without the look-up
getCurrentBranchResolvesNoLookup(c, currentBranch) ==
    /\ calls[c].phase = "branch"
    /\ LET session == [id |-> generateId, repo_id |-> calls[c].repoId,
                       branch |-> currentBranch]
       IN /\ sessions' = sessions \cup {session}
          /\ calls' = [calls EXCEPT ![c].phase = "returned",
                                    ![c].branch = currentBranch,
                                    ![c].result = <<session>>]
    /\ UNCHANGED cardVars
    /\ UNCHANGED <<scanVars, viewVars, pickerVars>>

\* git.getCurrentBranch resolves and the call runs to its return: the
\* existing session, or a new one that is inserted and read back
getCurrentBranchResolves(c, currentBranch) ==
    /\ calls[c].phase = "branch"
    /\ LET existing == SessionsOf(calls[c].repoId, currentBranch)
           session == [id |-> generateId, repo_id |-> calls[c].repoId,
                       branch |-> currentBranch]
       IN IF existing # {}
          THEN /\ sessions' = sessions
               /\ \E row \in existing :
                      calls' = [calls EXCEPT ![c].phase = "returned",
                                             ![c].branch = currentBranch,
                                             ![c].result = <<row>>]
          ELSE /\ sessions' = sessions \cup {session}
               /\ calls' = [calls EXCEPT ![c].phase = "returned",
                                         ![c].branch = currentBranch,
                                         ![c].result = <<session>>]
    /\ UNCHANGED cardVars
    /\ UNCHANGED <<scanVars, viewVars, pickerVars>>

\* the caller has the call's outcome
CallSettled(c) ==
    /\ calls[c].phase \in {"returned", "failed"}
    /\ calls' = [calls EXCEPT ![c] = NoCall]
    /\ UNCHANGED <<sessions, cardVars>>
    /\ UNCHANGED <<scanVars, viewVars, pickerVars>>

SessionNext ==
    \/ \E c \in 1..MaxCalls : \E repoId \in RepoIds :
           getOrCreateSession(c, repoId)
    \/ \E c \in 1..MaxCalls : getCurrentBranchFails(c)
    \/ \E c \in 1..MaxCalls : \E currentBranch \in Branches :
           getCurrentBranchResolves(c, currentBranch)
    \/ \E c \in 1..MaxCalls : CallSettled(c)

SessionSpec == ViewInit /\ [][SessionNext]_vars

(***************************************************************************)
(* C40: whatever getOrCreateSession calls have run and however they were   *)
(* interleaved, no two review sessions have the same repo id and branch;   *)
(* and a call whose repo id and current branch already have a session      *)
(* returns that session and inserts no row.                                *)
(***************************************************************************)
C40_OneSessionPerBranch ==
    /\ [](\A s \in sessions : \A t \in sessions :
             (s.repo_id = t.repo_id /\ s.branch = t.branch) => s = t)
    /\ [][\A c \in 1..MaxCalls : \A currentBranch \in Branches :
             (/\ getCurrentBranchResolves(c, currentBranch)
              /\ SessionsOf(calls[c].repoId, currentBranch) # {}) =>
                 /\ sessions' = sessions
                 /\ calls'[c].result \in
                        {<<s>> : s \in SessionsOf(calls[c].repoId,
                                                  currentBranch)}]_vars

\* two calls for one repository and one branch have both returned, with
\* the one session of that branch
C40_Witness ==
    /\ calls[1].phase = "returned"
    /\ calls[2].phase = "returned"
    /\ calls[1].repoId = calls[2].repoId
    /\ calls[1].branch = calls[2].branch
    /\ calls[1].result = calls[2].result
    /\ calls[1].result # <<>>
    /\ Cardinality(sessions) = 1

====
